---- MODULE Spec2Model ----
(***************************************************************************)
(* A model of the structured-edit engine of the agent loop                 *)
(* (src/agent/edits.py): the text edit primitives and the workspace        *)
(* transaction apply_workspace_edit_instructions.                          *)
(*                                                                         *)
(* Strings.  A text (a file's content, a snippet) is a sequence of         *)
(* one-character strings.  A path string is the sequence of its            *)
(* components, i.e. the string split at "/": "a/b" is <<"a","b">>, "/o" is *)
(* <<"","o">> (absolute: the first component is empty), "a/../c" is        *)
(* <<"a","..","c">>, and the empty string is <<>>.                         *)
(*                                                                         *)
(* Exceptions.  A function that may raise returns a record                 *)
(* [ok, val, err]: ok = TRUE and the value, or ok = FALSE and the error.   *)
(* An error carries the kind of message the code raises, the 1-based       *)
(* operation index, the field the message names and, for an ambiguous      *)
(* snippet, the number of matched locations.                               *)
(***************************************************************************)
EXTENDS Integers, Sequences, FiniteSets, TLC

\* ------------------------------------------------------------------ bounds

\* The longest instruction list of one transaction.
MaxOps == 3

\* The longest text of a file in the workspace transaction.
MaxLen == 2

\* The longest haystack handed to the snippet lookup on its own.
MaxHay == 4

\* The characters of texts.
Chars == {"x", "y"}

\* All texts of at most n characters.
TextsUpTo(n) == UNION {[1..k -> Chars] : k \in 0..n}

\* ------------------------------------------------------------------ errors

NoErr == [kind |-> "none", idx |-> 0, field |-> "", n |-> 0]

Err(kind, idx, field) == [kind |-> kind, idx |-> idx, field |-> field, n |-> 0]

Ok(v) == [ok |-> TRUE, val |-> v, err |-> NoErr]

Raise(e) == [ok |-> FALSE, val |-> <<>>, err |-> e]

\* ------------------------------------------------------------------ paths

\* os.path.normpath on a split path: "" and "." components are dropped, a
\* ".." removes the component before it, except that a relative path keeps
\* its leading ".." components and an absolute path drops them.
RECURSIVE NormComps(_, _, _)
NormComps(comps, abs, acc) ==
  IF comps = <<>> THEN acc
  ELSE LET c == Head(comps)
           rest == Tail(comps)
       IN IF c \in {"", "."} THEN NormComps(rest, abs, acc)
          ELSE IF \/ c # ".."
                  \/ (~abs /\ acc = <<>>)
                  \/ (acc # <<>> /\ acc[Len(acc)] = "..")
               THEN NormComps(rest, abs, Append(acc, c))
          ELSE IF acc # <<>>
               THEN NormComps(rest, abs, SubSeq(acc, 1, Len(acc) - 1))
          ELSE NormComps(rest, abs, acc)

\* os.path.isabs: the string starts with "/".
isabs(path) == path # <<>> /\ path[1] = ""

\* os.path.normpath: the result is "." when nothing is left of a relative path.
normpath(path) ==
  LET abs == isabs(path)
      comps == NormComps(path, abs, <<>>)
  IN IF abs THEN <<"">> \o comps
     ELSE IF comps = <<>> THEN <<".">> ELSE comps

\* _normalize_relative_path without its test for an absolute path.
NormalizeNoAbsCheck(path, idx, field) ==
  IF path = <<>> THEN Raise(Err("EmptyField", idx, field))
  ELSE LET normalized == normpath(path)
       IN IF normalized \in {<<".">>, <<"..">>} \/ normalized[1] = ".."
          THEN Raise(Err("PathEscape", idx, field))
          ELSE Ok(normalized)

\* _normalize_relative_path: the path normalized, or an error when it is
\* empty, absolute, or "." / ".." / "../..." after normalization.
\* (strip() is the identity on the paths of the model: none has white space.)
normalize_relative_path(path, idx, field) ==
  IF path = <<>> THEN Raise(Err("EmptyField", idx, field))
  ELSE LET normalized == normpath(path)
       IN IF isabs(normalized) THEN Raise(Err("AbsolutePath", idx, field))
          ELSE IF normalized \in {<<".">>, <<"..">>} \/ normalized[1] = ".."
          THEN Raise(Err("PathEscape", idx, field))
          ELSE Ok(normalized)

\* The workspace root, as an absolute path of the modelled disk: "/w".
workspace_abs == <<"", "w">>

\* os.path.abspath(os.path.join(workspace_abs, rel_path)): join returns
\* rel_path itself when it is absolute.
JoinAbs(rel_path) ==
  normpath(IF isabs(rel_path) THEN rel_path ELSE workspace_abs \o rel_path)

\* Whether p is a (not necessarily proper) prefix of q.
IsPrefix(p, q) == Len(p) <= Len(q) /\ SubSeq(q, 1, Len(p)) = p

\* _absolute_workspace_path: the absolute path of rel_path, or an error when
\* the common path of it and the workspace root is not the workspace root.
absolute_workspace_path(rel_path, idx, field) ==
  LET abs_path == JoinAbs(rel_path)
  IN IF ~IsPrefix(workspace_abs, abs_path)
     THEN Raise(Err("PathEscape", idx, field))
     ELSE Ok(abs_path)

\* The order of sorted() on path strings whose components are letters: the
\* separator sorts below every letter, so a path sorts right after its parent.
NameRank(c) ==
  CASE c = "" -> 0 [] c = "." -> 1 [] c = ".." -> 2 [] c = "a" -> 3
    [] c = "b" -> 4 [] c = "c" -> 5 [] c = "o" -> 6 [] c = "w" -> 7 [] OTHER -> 8

RECURSIVE PathLess(_, _)
PathLess(p, q) ==
  IF q = <<>> THEN FALSE
  ELSE IF p = <<>> THEN TRUE
  ELSE IF Head(p) = Head(q) THEN PathLess(Tail(p), Tail(q))
  ELSE NameRank(Head(p)) < NameRank(Head(q))

\* sorted(paths) with the order reversed.
RECURSIVE SortedDescending(_)
SortedDescending(paths) ==
  IF paths = {} THEN <<>>
  ELSE LET greatest == CHOOSE p \in paths : \A q \in paths \ {p} : PathLess(q, p)
       IN <<greatest>> \o SortedDescending(paths \ {greatest})

\* sorted(paths): the paths as an ascending list.
RECURSIVE sorted(_)
sorted(paths) ==
  IF paths = {} THEN <<>>
  ELSE LET least == CHOOSE p \in paths : \A q \in paths \ {p} : PathLess(p, q)
       IN <<least>> \o sorted(paths \ {least})

\* ------------------------------------------------------- edit operations

\* The keys an edit operation (a JSON object) may hold.  has is the set of
\* keys present in the object; edit.get(key) is None for a key not in has.
EditKeys == {"path", "new_path", "old", "new", "anchor", "text", "content", "occurrence"}

TEXT_EDIT_OPS ==
  {"replace_snippet", "delete_snippet", "insert_before", "insert_after",
   "append_text", "prepend_text", "replace_entire_file"}

\* The marker of a file that does not exist, in the file cache.
MISSING == <<"MISSING">>

\* Python's None, for an optional path and an optional occurrence.
None == <<"None">>

NoOccurrence == 0

\* _required_string: the field's value, or an error when it is absent.
required_string(edit, key, idx) ==
  IF key \in edit.has THEN Ok(edit[key])
  ELSE Raise(Err("FieldNotString", idx, key))

\* _required_path: the field's value normalized, or an error.
required_path(edit, key, idx) ==
  IF key \in edit.has THEN normalize_relative_path(edit[key], idx, key)
  ELSE Raise(Err("FieldNotString", idx, key))

\* _occurrence: NoOccurrence when the field is absent, an error when it is
\* not a positive integer.
occurrence_of(edit, idx) ==
  IF "occurrence" \notin edit.has THEN Ok(NoOccurrence)
  ELSE IF edit.occurrence <= 0 THEN Raise(Err("InvalidOccurrence", idx, "occurrence"))
  ELSE Ok(edit.occurrence)

\* _resolve_target_path in which the default path wins over an explicit one.
ResolveDefaultFirst(edit, idx, default_rel) ==
  IF default_rel # None THEN Ok(default_rel)
  ELSE IF "path" \notin edit.has THEN Raise(Err("MissingPath", idx, "path"))
  ELSE normalize_relative_path(edit.path, idx, "path")

\* _resolve_target_path: the explicit path normalized; without one, the
\* default path, or an error when there is none.
resolve_target_path(edit, idx, default_rel) ==
  IF "path" \notin edit.has
  THEN IF default_rel = None THEN Raise(Err("MissingPath", idx, "path"))
       ELSE Ok(default_rel)
  ELSE normalize_relative_path(edit.path, idx, "path")

\* ------------------------------------------------------- text primitives

\* haystack[i:j], with 0-based positions as in the code.
Slice(s, i, j) == SubSeq(s, i + 1, j)

\* str.find(needle, start): the least 0-based position >= start at which
\* needle occurs in haystack, or -1.
find(haystack, needle, start) ==
  LET at == {p \in start..(Len(haystack) - Len(needle)) :
               Slice(haystack, p, p + Len(needle)) = needle}
  IN IF at = {} THEN -1 ELSE CHOOSE p \in at : \A q \in at : p <= q

\* The loop of _find_occurrence restarting after the end of the previous
\* match, so that overlapping occurrences are skipped.
RECURSIVE PositionsNonOverlapping(_, _, _)
PositionsNonOverlapping(haystack, needle, start) ==
  LET pos == find(haystack, needle, start)
  IN IF pos < 0 THEN <<>>
     ELSE <<pos>> \o PositionsNonOverlapping(haystack, needle, pos + Len(needle))

\* The loop of _find_occurrence: every match position, the search for the
\* next one restarting one character after the start of the previous one.
RECURSIVE positions_from(_, _, _)
positions_from(haystack, needle, start) ==
  LET pos == find(haystack, needle, start)
  IN IF pos < 0 THEN <<>>
     ELSE <<pos>> \o positions_from(haystack, needle, pos + 1)

\* _find_occurrence that takes the first match when occurrence is omitted.
FindFirstWhenOmitted(haystack, needle, occurrence, idx, field) ==
  IF needle = <<>> THEN Raise(Err("EmptyField", idx, field))
  ELSE LET positions == positions_from(haystack, needle, 0)
       IN IF positions = <<>> THEN Raise(Err("SnippetNotFound", idx, field))
          ELSE IF occurrence = NoOccurrence THEN Ok(positions[1])
          ELSE IF occurrence > Len(positions)
               THEN Raise(Err("OccurrenceOutOfRange", idx, field))
          ELSE Ok(positions[occurrence])

\* _find_occurrence: the 0-based position of the selected match, or an error.
find_occurrence(haystack, needle, occurrence, idx, field) ==
  IF needle = <<>> THEN Raise(Err("EmptyField", idx, field))
  ELSE LET positions == positions_from(haystack, needle, 0)
       IN IF positions = <<>> THEN Raise(Err("SnippetNotFound", idx, field))
          ELSE IF occurrence = NoOccurrence
               THEN IF Len(positions) > 1
                    THEN Raise([Err("AmbiguousSnippet", idx, field)
                                  EXCEPT !.n = Len(positions)])
                    ELSE Ok(positions[1])
          ELSE IF occurrence > Len(positions)
               THEN Raise([Err("OccurrenceOutOfRange", idx, field)
                             EXCEPT !.n = Len(positions)])
          ELSE Ok(positions[occurrence])

\* _replace_once that leaves the matched snippet in place after new.
ReplaceKeepsOld(haystack, old, new, occurrence, idx) ==
  LET pos == find_occurrence(haystack, old, occurrence, idx, "old")
  IN IF ~pos.ok THEN pos
     ELSE Ok(Slice(haystack, 0, pos.val) \o new
             \o Slice(haystack, pos.val, Len(haystack)))

\* _replace_once that returns the text as it is when the snippet is not found.
ReplaceSkipsMissing(haystack, old, new, occurrence, idx) ==
  LET pos == find_occurrence(haystack, old, occurrence, idx, "old")
  IN IF ~pos.ok
     THEN IF pos.err.kind = "SnippetNotFound" THEN Ok(haystack) ELSE pos
     ELSE Ok(Slice(haystack, 0, pos.val) \o new
             \o Slice(haystack, pos.val + Len(old), Len(haystack)))

\* _replace_once
replace_once(haystack, old, new, occurrence, idx) ==
  LET pos == find_occurrence(haystack, old, occurrence, idx, "old")
  IN IF ~pos.ok THEN pos
     ELSE Ok(Slice(haystack, 0, pos.val) \o new
             \o Slice(haystack, pos.val + Len(old), Len(haystack)))

\* _insert_relative that inserts after the anchor whatever before is.
InsertAlwaysAfter(haystack, anchor, text, before, occurrence, idx) ==
  LET pos == find_occurrence(haystack, anchor, occurrence, idx, "anchor")
  IN IF ~pos.ok THEN pos
     ELSE Ok(Slice(haystack, 0, pos.val + Len(anchor)) \o text
             \o Slice(haystack, pos.val + Len(anchor), Len(haystack)))

\* _insert_relative
insert_relative(haystack, anchor, text, before, occurrence, idx) ==
  LET pos == find_occurrence(haystack, anchor, occurrence, idx, "anchor")
  IN IF ~pos.ok THEN pos
     ELSE IF before
          THEN Ok(Slice(haystack, 0, pos.val) \o text
                  \o Slice(haystack, pos.val, Len(haystack)))
          ELSE Ok(Slice(haystack, 0, pos.val + Len(anchor)) \o text
                  \o Slice(haystack, pos.val + Len(anchor), Len(haystack)))

\* _apply_text_edit: the fields are read in the order of the code, and the
\* first error is the one raised.
apply_text_edit(text, edit, idx) ==
  LET op == edit.op
      occurrence == occurrence_of(edit, idx)
  IN CASE op = "replace_snippet" ->
            LET old == required_string(edit, "old", idx)
                new == required_string(edit, "new", idx)
            IN IF ~old.ok THEN old ELSE IF ~new.ok THEN new
               ELSE IF ~occurrence.ok THEN occurrence
               ELSE replace_once(text, old.val, new.val, occurrence.val, idx)
       [] op = "delete_snippet" ->
            LET old == required_string(edit, "old", idx)
            IN IF ~old.ok THEN old
               ELSE IF ~occurrence.ok THEN occurrence
               ELSE replace_once(text, old.val, <<>>, occurrence.val, idx)
       [] op \in {"insert_before", "insert_after"} ->
            LET anchor == required_string(edit, "anchor", idx)
                insert_text == required_string(edit, "text", idx)
            IN IF ~anchor.ok THEN anchor ELSE IF ~insert_text.ok THEN insert_text
               ELSE IF ~occurrence.ok THEN occurrence
               ELSE insert_relative(text, anchor.val, insert_text.val,
                                    op = "insert_before", occurrence.val, idx)
       [] op = "append_text" ->
            LET append_text == required_string(edit, "text", idx)
            IN IF ~append_text.ok THEN append_text
               ELSE Ok(text \o append_text.val)
       [] op = "prepend_text" ->
            LET prepend_text == required_string(edit, "text", idx)
            IN IF ~prepend_text.ok THEN prepend_text
               ELSE Ok(prepend_text.val \o text)
       [] op = "replace_entire_file" -> required_string(edit, "content", idx)
       [] OTHER -> Raise(Err("UnsupportedOperation", idx, "op"))

\* ------------------------------------------------------------ the disk

\* The absolute paths of the modelled disk: the workspace root /w, the paths
\* a, a/b and c under it, and /o outside it.  The root / is a directory.
FsPaths ==
  {<<"", "w">>, <<"", "w", "a">>, <<"", "w", "a", "b">>, <<"", "w", "c">>,
   <<"", "o">>}

Absent == [k |-> "absent", text |-> <<>>]

Dir == [k |-> "dir", text |-> <<>>]

File(t) == [k |-> "file", text |-> t]

NodeAt(disk, p) ==
  IF p = <<"">> THEN Dir ELSE IF p \in FsPaths THEN disk[p] ELSE Absent

\* os.path.isdir, os.path.exists
isdir(disk, p) == NodeAt(disk, p).k = "dir"

exists(disk, p) == NodeAt(disk, p).k # "absent"

\* os.path.dirname of an absolute path
dirname(p) == SubSeq(p, 1, Len(p) - 1)

\* The ancestors of p that os.makedirs(p) visits, p included, the root left out.
Ancestors(p) == {SubSeq(p, 1, n) : n \in 2..Len(p)}

\* os.makedirs(p, exist_ok=True): every absent ancestor becomes a directory;
\* it raises OSError (FileExistsError, NotADirectoryError) when p or an
\* ancestor of it is a file.
makedirs(disk, p) ==
  IF \E q \in Ancestors(p) : NodeAt(disk, q).k = "file"
  THEN Raise(Err("OSError", 0, "makedirs"))
  ELSE Ok([q \in FsPaths |->
             IF q \in Ancestors(p) /\ disk[q].k = "absent" THEN Dir ELSE disk[q]])

\* The content of the workspace file rel_path on a disk, or MISSING: what
\* load_file gives for it (a directory holds no file).
OnDisk(disk, rel_path) ==
  LET node == NodeAt(disk, JoinAbs(rel_path))
  IN IF node.k = "file" THEN node.text ELSE MISSING

\* ------------------------------------------------------ the transaction

VARIABLES
  workspace,      \* the disk: FsPaths -> Absent, Dir or File(text)
  default_path,   \* the default_path argument, or None
  pc,             \* "begin", "ops", "commit", "returned" or "raised"
  default_rel,    \* the normalized default path, or None
  file_cache,     \* relative path -> text or MISSING, for the paths loaded
  dirty_paths,    \* the relative paths some operation has changed
  idx,            \* the 1-based index of the operation last taken from the list
  pending,        \* the rest of sorted(dirty_paths) the commit loop has to do
  result,         \* the list returned
  error,          \* the exception raised, NoErr when none
  workspace0,     \* history: the disk when the call was made
  last_edit,      \* history: the operation last taken from the list
  raised_in,      \* history: the part of the call that raised
  targets,        \* history: the paths the operations applied so far name
  writes          \* history: the paths the commit loop has removed or written

wsVars ==
  <<workspace, default_path, pc, default_rel, file_cache, dirty_paths, idx,
    pending, result, error, workspace0, last_edit, raised_in, targets, writes>>

\* The empty dict
EmptyCache == [p \in {} |-> MISSING]

\* load_file that reads the disk on every reference.
LoadAlwaysFromDisk(cache, disk, rel_path, at) ==
  LET abs_path == absolute_workspace_path(rel_path, at, "path")
  IN IF ~abs_path.ok
     THEN [ok |-> FALSE, val |-> MISSING, err |-> abs_path.err, cache |-> cache]
     ELSE IF isdir(disk, abs_path.val)
     THEN [ok |-> FALSE, val |-> MISSING,
           err |-> Err("TargetIsDirectory", at, "path"), cache |-> cache]
     ELSE LET value == IF exists(disk, abs_path.val)
                       THEN NodeAt(disk, abs_path.val).text
                       ELSE MISSING
          IN [ok |-> TRUE, val |-> value, err |-> NoErr,
              cache |-> (rel_path :> value) @@ cache]

\* load_file: the cached value of rel_path; on the first reference the file is
\* read from the disk (MISSING when it does not exist) and cached.  The result
\* carries the cache.
load_file(cache, disk, rel_path, at) ==
  IF rel_path \in DOMAIN cache
  THEN [ok |-> TRUE, val |-> cache[rel_path], err |-> NoErr, cache |-> cache]
  ELSE LET abs_path == absolute_workspace_path(rel_path, at, "path")
       IN IF ~abs_path.ok
          THEN [ok |-> FALSE, val |-> MISSING, err |-> abs_path.err, cache |-> cache]
          ELSE IF isdir(disk, abs_path.val)
          THEN [ok |-> FALSE, val |-> MISSING,
                err |-> Err("TargetIsDirectory", at, "path"), cache |-> cache]
          ELSE LET value == IF exists(disk, abs_path.val)
                            THEN NodeAt(disk, abs_path.val).text
                            ELSE MISSING
               IN [ok |-> TRUE, val |-> value, err |-> NoErr,
                   cache |-> (rel_path :> value) @@ cache]

\* Writing value for rel_path into the cache.
Put(cache, rel_path, value) ==
  [p \in DOMAIN cache \cup {rel_path} |-> IF p = rel_path THEN value ELSE cache[p]]

\* The outcome of one pass of the operation loop.
Done(cache, dirty) == [ok |-> TRUE, err |-> NoErr, cache |-> cache, dirty |-> dirty]

Fail(e) == [ok |-> FALSE, err |-> e, cache |-> EmptyCache, dirty |-> {}]


\* The text edit branch marking the path dirty only when its text changed.
TextEditDirtyIfChanged(cache, dirty, disk, drel, edit, at) ==
  LET target_rel == resolve_target_path(edit, at, drel)
  IN IF ~target_rel.ok THEN Fail(target_rel.err)
     ELSE LET current_value == load_file(cache, disk, target_rel.val, at)
          IN IF ~current_value.ok THEN Fail(current_value.err)
             ELSE IF current_value.val = MISSING
             THEN Fail(Err("TargetFileNotFound", at, "path"))
             ELSE LET updated_value == apply_text_edit(current_value.val, edit, at)
                  IN IF ~updated_value.ok THEN Fail(updated_value.err)
                     ELSE Done(Put(current_value.cache, target_rel.val, updated_value.val),
                               IF updated_value.val = current_value.val THEN dirty
                               ELSE dirty \cup {target_rel.val})

\* The branch of the loop for a text edit operation (op in TEXT_EDIT_OPS).
text_edit_step(cache, dirty, disk, drel, edit, at) ==
  LET target_rel == resolve_target_path(edit, at, drel)
  IN IF ~target_rel.ok THEN Fail(target_rel.err)
     ELSE LET current_value == load_file(cache, disk, target_rel.val, at)
          IN IF ~current_value.ok THEN Fail(current_value.err)
             ELSE IF current_value.val = MISSING
             THEN Fail(Err("TargetFileNotFound", at, "path"))
             ELSE LET updated_value == apply_text_edit(current_value.val, edit, at)
                  IN IF ~updated_value.ok THEN Fail(updated_value.err)
                     ELSE Done(Put(current_value.cache, target_rel.val, updated_value.val),
                               dirty \cup {target_rel.val})

\* The branch for create_file.
create_file_step(cache, dirty, disk, edit, at) ==
  LET target_rel == required_path(edit, "path", at)
  IN IF ~target_rel.ok THEN Fail(target_rel.err)
     ELSE LET current_value == load_file(cache, disk, target_rel.val, at)
          IN IF ~current_value.ok THEN Fail(current_value.err)
             ELSE IF current_value.val # MISSING
             THEN Fail(Err("AlreadyExists", at, "path"))
             ELSE LET content == required_string(edit, "content", at)
                  IN IF ~content.ok THEN Fail(content.err)
                     ELSE Done(Put(current_value.cache, target_rel.val, content.val),
                               dirty \cup {target_rel.val})

\* The branch for delete_file.
delete_file_step(cache, dirty, disk, edit, at) ==
  LET target_rel == required_path(edit, "path", at)
  IN IF ~target_rel.ok THEN Fail(target_rel.err)
     ELSE LET current_value == load_file(cache, disk, target_rel.val, at)
          IN IF ~current_value.ok THEN Fail(current_value.err)
             ELSE IF current_value.val = MISSING
             THEN Fail(Err("DeleteNotFound", at, "path"))
             ELSE Done(Put(current_value.cache, target_rel.val, MISSING),
                       dirty \cup {target_rel.val})

\* The move_file branch leaving the source in place (a copy).
MoveKeepsSource(cache, dirty, disk, drel, edit, at) ==
  LET source_rel == resolve_target_path(edit, at, drel)
      destination_rel == required_path(edit, "new_path", at)
  IN IF ~source_rel.ok THEN Fail(source_rel.err)
     ELSE IF ~destination_rel.ok THEN Fail(destination_rel.err)
     ELSE IF source_rel.val = destination_rel.val
     THEN Fail(Err("MoveSame", at, "path"))
     ELSE LET source_value == load_file(cache, disk, source_rel.val, at)
          IN IF ~source_value.ok THEN Fail(source_value.err)
             ELSE IF source_value.val = MISSING
             THEN Fail(Err("MoveSourceNotFound", at, "path"))
             ELSE LET destination_value ==
                        load_file(source_value.cache, disk, destination_rel.val, at)
                  IN IF ~destination_value.ok THEN Fail(destination_value.err)
                     ELSE IF destination_value.val # MISSING
                     THEN Fail(Err("MoveDestinationExists", at, "new_path"))
                     ELSE Done(Put(destination_value.cache, destination_rel.val,
                                   source_value.val),
                               dirty \cup {source_rel.val, destination_rel.val})

\* The branch for move_file.
move_file_step(cache, dirty, disk, drel, edit, at) ==
  LET source_rel == resolve_target_path(edit, at, drel)
      destination_rel == required_path(edit, "new_path", at)
  IN IF ~source_rel.ok THEN Fail(source_rel.err)
     ELSE IF ~destination_rel.ok THEN Fail(destination_rel.err)
     ELSE IF source_rel.val = destination_rel.val
     THEN Fail(Err("MoveSame", at, "path"))
     ELSE LET source_value == load_file(cache, disk, source_rel.val, at)
          IN IF ~source_value.ok THEN Fail(source_value.err)
             ELSE IF source_value.val = MISSING
             THEN Fail(Err("MoveSourceNotFound", at, "path"))
             ELSE LET destination_value ==
                        load_file(source_value.cache, disk, destination_rel.val, at)
                  IN IF ~destination_value.ok THEN Fail(destination_value.err)
                     ELSE IF destination_value.val # MISSING
                     THEN Fail(Err("MoveDestinationExists", at, "new_path"))
                     ELSE Done(Put(Put(destination_value.cache, destination_rel.val,
                                       source_value.val),
                                   source_rel.val, MISSING),
                               dirty \cup {source_rel.val, destination_rel.val})

\* The pass of the loop that skips an operation it does not know.
LoopBodySkipsUnknown(cache, dirty, disk, drel, edit, at) ==
  CASE edit.op \in TEXT_EDIT_OPS -> text_edit_step(cache, dirty, disk, drel, edit, at)
    [] edit.op = "create_file" -> create_file_step(cache, dirty, disk, edit, at)
    [] edit.op = "delete_file" -> delete_file_step(cache, dirty, disk, edit, at)
    [] edit.op = "move_file" -> move_file_step(cache, dirty, disk, drel, edit, at)
    [] OTHER -> Done(cache, dirty)

\* One pass of the loop over the operations: the new cache and dirty set, or
\* the error raised.
loop_body(cache, dirty, disk, drel, edit, at) ==
  CASE edit.op \in TEXT_EDIT_OPS -> text_edit_step(cache, dirty, disk, drel, edit, at)
    [] edit.op = "create_file" -> create_file_step(cache, dirty, disk, edit, at)
    [] edit.op = "delete_file" -> delete_file_step(cache, dirty, disk, edit, at)
    [] edit.op = "move_file" -> move_file_step(cache, dirty, disk, drel, edit, at)
    [] OTHER -> Fail(Err("UnsupportedOperation", at, "op"))

\* The outcome of one pass of the commit loop.
Committed(disk, wrote) == [ok |-> TRUE, disk |-> disk, err |-> NoErr, wrote |-> wrote]

CommitFail(disk, e) == [ok |-> FALSE, disk |-> disk, err |-> e, wrote |-> FALSE]

\* The commit pass that never removes a file.
CommitNoDelete(cache, disk, rel_path) ==
  LET abs_path == absolute_workspace_path(rel_path, 0, "path")
      value == cache[rel_path]
  IN IF ~abs_path.ok THEN CommitFail(disk, abs_path.err)
     ELSE IF value = MISSING THEN Committed(disk, FALSE)
     ELSE LET made == makedirs(disk, dirname(abs_path.val))
          IN IF ~made.ok THEN CommitFail(disk, made.err)
             ELSE IF isdir(made.val, abs_path.val)
             THEN CommitFail(made.val, Err("DirectoryExists", 0, "path"))
             ELSE Committed([made.val EXCEPT ![abs_path.val] = File(value)], TRUE)

\* One pass of the commit loop, for the dirty path rel_path: the disk it
\* leaves, whether it removed or wrote the file, and the error raised if any.  A failing os.makedirs raises an
\* OSError that nothing catches; the other failures are raised as ValueError.
commit_path(cache, disk, rel_path) ==
  LET abs_path == absolute_workspace_path(rel_path, 0, "path")
      value == cache[rel_path]
  IN IF ~abs_path.ok THEN CommitFail(disk, abs_path.err)
     ELSE IF value = MISSING
     THEN IF exists(disk, abs_path.val)
          THEN IF isdir(disk, abs_path.val)
               THEN CommitFail(disk, Err("DeleteFailed", 0, "path"))
               ELSE Committed([disk EXCEPT ![abs_path.val] = Absent], TRUE)
          ELSE Committed(disk, FALSE)
     ELSE LET made == makedirs(disk, dirname(abs_path.val))
          IN IF ~made.ok THEN CommitFail(disk, made.err)
             ELSE IF isdir(made.val, abs_path.val)
             THEN CommitFail(made.val, Err("DirectoryExists", 0, "path"))
             ELSE Committed([made.val EXCEPT ![abs_path.val] = File(value)], TRUE)

\* ------------------------------------------------------------ the inputs

\* The disks a call may find: an empty workspace; files a and c; a directory
\* a holding the file a/b, and the file c; an empty directory a; no
\* workspace directory at all.  /o is a file outside the workspace.
DiskOf(w, a, ab, c) ==
  (<<"", "w">> :> w) @@ (<<"", "w", "a">> :> a) @@ (<<"", "w", "a", "b">> :> ab)
  @@ (<<"", "w", "c">> :> c) @@ (<<"", "o">> :> File(<<"x">>))

InitDisks ==
  {DiskOf(Dir, Absent, Absent, Absent),
   DiskOf(Dir, File(<<"x">>), Absent, File(<<"x", "x">>)),
   DiskOf(Dir, Dir, File(<<"x">>), File(<<"x">>)),
   DiskOf(Dir, Dir, Absent, Absent),
   DiskOf(Absent, Absent, Absent, Absent)}

\* The path strings of the operations: a, a/b, c, a/../c, ../o, .., a/..,
\* /o, /w/c and the empty string.
RawPaths ==
  {<<"a">>, <<"a", "b">>, <<"c">>, <<"a", "..", "c">>, <<"..", "o">>, <<"..">>,
   <<"a", "..">>, <<"", "o">>, <<"", "w", "c">>, <<>>}

DefaultPaths == {None, <<"c">>, <<"a">>, <<"..", "o">>}

Blank ==
  [op |-> "", has |-> {}, path |-> <<>>, new_path |-> <<>>, old |-> <<>>,
   new |-> <<>>, anchor |-> <<>>, text |-> <<>>, content |-> <<>>, occurrence |-> 0]

With(edit, key, value) == [edit EXCEPT !.has = @ \cup {key}, ![key] = value]

Op(name) == [Blank EXCEPT !.op = name]

\* The operations without their path.
TextEdits ==
  {With(With(Op("replace_snippet"), "old", <<"x">>), "new", <<"y">>),
   With(With(Op("replace_snippet"), "old", <<"x">>), "new", <<"x">>),
   With(With(With(Op("replace_snippet"), "old", <<"x">>), "new", <<"y">>), "occurrence", 2),
   With(With(With(Op("replace_snippet"), "old", <<"x">>), "new", <<"y">>), "occurrence", 0),
   With(Op("replace_snippet"), "old", <<"x">>),
   With(Op("delete_snippet"), "old", <<"x">>),
   With(With(Op("insert_before"), "anchor", <<"x">>), "text", <<"y">>),
   With(With(Op("insert_after"), "anchor", <<"x">>), "text", <<"y">>),
   With(Op("append_text"), "text", <<"y">>),
   With(Op("prepend_text"), "text", <<"y">>),
   With(Op("replace_entire_file"), "content", <<"y">>)}

FileEdits ==
  {With(Op("create_file"), "content", <<"y">>), Op("create_file"),
   Op("delete_file"), Op("rename_file")}

MoveEdits == {Op("move_file")} \cup {With(Op("move_file"), "new_path", q) : q \in RawPaths}

\* The operations an instruction list is made of.
EditOps ==
  LET bare == TextEdits \cup FileEdits \cup MoveEdits
  IN bare \cup {With(e, "path", p) : e \in bare, p \in RawPaths}

\* ------------------------------------------------------------ the call

\* The state of the variables of the other specifications of this module.
VARIABLES
  call,   \* the arguments of a call of a pure function
  ret     \* what the call returned, NotCalled before it

NotCalled == [ok |-> FALSE, val |-> <<>>, err |-> Err("not called", 0, "")]

pureVars == <<call, ret>>

vars == <<wsVars, pureVars>>

NoCall == [fn |-> "none"]

PureIdle == call = NoCall /\ ret = NotCalled

Init ==
  /\ workspace \in InitDisks
  /\ default_path \in DefaultPaths
  /\ pc = "begin"
  /\ default_rel = None
  /\ file_cache = EmptyCache
  /\ dirty_paths = {}
  /\ idx = 0
  /\ pending = <<>>
  /\ result = <<>>
  /\ error = NoErr
  /\ workspace0 = workspace
  /\ last_edit = Blank
  /\ raised_in = "none"
  /\ targets = {}
  /\ writes = {}
  /\ PureIdle

\* raise: the locals of the call are gone.
RaiseIn(part, e) ==
  /\ pc' = "raised"
  /\ error' = e
  /\ raised_in' = part
  /\ file_cache' = EmptyCache
  /\ dirty_paths' = {}
  /\ pending' = <<>>

\* Lines 98-106: the workspace must be a directory, and the default path is
\* normalized.
Begin ==
  /\ pc = "begin"
  /\ LET drel == IF default_path = None THEN Ok(None)
                 ELSE normalize_relative_path(default_path, 0, "default_path")
     IN IF ~isdir(workspace, workspace_abs)
        THEN RaiseIn("begin", Err("WorkspaceMissing", 0, "")) /\ UNCHANGED default_rel
        ELSE IF ~drel.ok
        THEN RaiseIn("begin", drel.err) /\ UNCHANGED default_rel
        ELSE /\ pc' = "ops"
             /\ default_rel' = drel.val
             /\ UNCHANGED <<file_cache, dirty_paths, pending, error, raised_in>>
  /\ UNCHANGED <<workspace, default_path, idx, result, workspace0, last_edit,
                 targets, writes>>
  /\ UNCHANGED pureVars

\* The paths an operation names: its path, normalized (the default path when
\* it has none), and the normalized new_path of a move_file.
Named(edit, drel) ==
  {IF "path" \in edit.has THEN normpath(edit.path) ELSE drel}
  \cup (IF edit.op = "move_file" THEN {normpath(edit.new_path)} ELSE {})

\* The outcome of a pass of the operation loop taken over into the state: the
\* cache and the dirty set are updated, or the call raises.  Texts are kept
\* within MaxLen.
TakeOver(edit, out) ==
  /\ out.ok => \A p \in DOMAIN out.cache : Len(out.cache[p]) <= MaxLen
  /\ idx' = idx + 1
  /\ last_edit' = edit
  /\ IF out.ok
     THEN /\ file_cache' = out.cache
          /\ dirty_paths' = out.dirty
          /\ targets' = targets \cup Named(edit, default_rel)
          /\ UNCHANGED <<pc, pending, error, raised_in>>
     ELSE RaiseIn("ops", out.err) /\ UNCHANGED targets

\* The disk after writing through what a pass of the operation loop changed.
WrittenThrough(disk, out) ==
  IF ~out.ok THEN disk
  ELSE [q \in FsPaths |->
          IF \E p \in out.dirty : JoinAbs(p) = q /\ isdir(disk, dirname(q))
          THEN LET p == CHOOSE p \in out.dirty : JoinAbs(p) = q
               IN IF out.cache[p] = MISSING THEN Absent ELSE File(out.cache[p])
          ELSE disk[q]]

\* The pass of the operation loop writing each operation through to the disk
\* as it is applied.
ApplyEditWriteThrough(edit) ==
  /\ pc = "ops"
  /\ idx < MaxOps
  /\ TakeOver(edit, loop_body(file_cache, dirty_paths, workspace, default_rel, edit, idx + 1))
  /\ workspace' = WrittenThrough(workspace, loop_body(file_cache, dirty_paths, workspace,
                                                       default_rel, edit, idx + 1))
  /\ UNCHANGED <<default_path, default_rel, result, workspace0, writes>>
  /\ UNCHANGED pureVars

\* One pass of the loop over the operations, for the next operation of the list.
ApplyEdit(edit) ==
  /\ pc = "ops"
  /\ idx < MaxOps
  /\ TakeOver(edit, loop_body(file_cache, dirty_paths, workspace, default_rel, edit, idx + 1))
  /\ UNCHANGED <<workspace, default_path, default_rel, result, workspace0, writes>>
  /\ UNCHANGED pureVars

\* The list is exhausted: the commit loop starts on sorted(dirty_paths).
EndOfList ==
  /\ pc = "ops"
  /\ pc' = "commit"
  /\ pending' = sorted(dirty_paths)
  /\ UNCHANGED <<workspace, default_path, default_rel, file_cache, dirty_paths, idx,
                 result, error, workspace0, last_edit, raised_in, targets, writes>>
  /\ UNCHANGED pureVars

\* The outcome of a pass of the commit loop taken over into the state.
Flush(out) ==
  /\ workspace' = out.disk
  /\ writes' = IF out.wrote THEN writes \cup {Head(pending)} ELSE writes
  /\ IF out.ok
     THEN /\ pending' = Tail(pending)
          /\ UNCHANGED <<pc, file_cache, dirty_paths, error, raised_in>>
     ELSE RaiseIn("commit", out.err)

\* One pass of the commit loop, for the next path of sorted(dirty_paths).
CommitPath ==
  /\ pc = "commit"
  /\ pending # <<>>
  /\ Flush(commit_path(file_cache, workspace, Head(pending)))
  /\ UNCHANGED <<default_path, default_rel, idx, result, workspace0, last_edit, targets>>
  /\ UNCHANGED pureVars

\* return sorted(dirty_paths)
Return ==
  /\ pc = "commit"
  /\ pending = <<>>
  /\ pc' = "returned"
  /\ result' = sorted(dirty_paths)
  /\ UNCHANGED <<workspace, default_path, default_rel, file_cache, dirty_paths, idx,
                 pending, error, workspace0, last_edit, raised_in, targets, writes>>
  /\ UNCHANGED pureVars

Next ==
  \/ Begin
  \/ \E edit \in EditOps : ApplyEdit(edit)
  \/ EndOfList
  \/ CommitPath
  \/ Return

Spec == Init /\ [][Next]_vars


\* ------------------------------------------------ the workspace transaction

\* The workspace-relative paths of the modelled disk.
RelPaths == {<<"a">>, <<"a", "b">>, <<"c">>}

Range(seq) == {seq[i] : i \in 1..Len(seq)}

\* A path string the transaction accepts: relative, and inside the workspace
\* after normalization.
BadPath(path) ==
  \/ isabs(path)
  \/ normpath(path) \in {<<".">>, <<"..">>}
  \/ normpath(path)[1] = ".."

\* The in-transaction state of a path before a step: the cached value, or, for
\* a path not referenced yet, what the disk holds.
InTx(rel_path) ==
  IF rel_path \in DOMAIN file_cache THEN file_cache[rel_path]
  ELSE OnDisk(workspace, rel_path)

\* The path is not an existing directory that the step would have to load.
Loadable(rel_path) ==
  rel_path \in DOMAIN file_cache \/ ~isdir(workspace, JoinAbs(rel_path))

\* A step of the operation loop: it takes operation last_edit' from the list.
OpStep == pc = "ops" /\ idx' = idx + 1

\* The step applied its operation (it did not raise).
Applied == pc' = "ops"

\* The cache after the step differs from the one before at most in paths.
OnlyChanged(paths) ==
  /\ DOMAIN file_cache \subseteq DOMAIN file_cache'
  /\ \A q \in DOMAIN file_cache' \ paths :
       q \in DOMAIN file_cache /\ file_cache'[q] = file_cache[q]

\* C1: whenever the call raises, in the operation loop or in the commit, the
\* disk is as it was when the call was made.
C1_RaiseLeavesDiskUnchanged == pc = "raised" => workspace = workspace0

\* C2: nothing is written, deleted or created on disk before every operation
\* of the list has been applied in memory: while the operation loop runs, and
\* when it raises at operation k (the last one included), the disk is as it
\* was when the call was made.
C2_NoDiskChangeBeforeCommit ==
  (pc \in {"begin", "ops"} \/ raised_in \in {"begin", "ops"}) => workspace = workspace0

\* Operation k >= 2 of the list raised, after k-1 operations were applied.
C2_Witness == raised_in = "ops" /\ error.idx >= 2 /\ targets # {}

\* C3 as stated: after a successful return a touched path whose final state is
\* absent does not exist on disk, and one whose final state is a text is a
\* file holding exactly that text.
C3_Original ==
  pc = "returned" =>
    \A p \in dirty_paths :
      IF file_cache[p] = MISSING THEN ~exists(workspace, JoinAbs(p))
      ELSE NodeAt(workspace, JoinAbs(p)) = File(file_cache[p])

\* C3 amended: after a successful return a touched path whose final state is
\* a text is a file holding exactly that text, and one whose final state is
\* absent does not exist, unless the same transaction left a file beneath it:
\* then it is a directory.
C3_FinalStateOnDisk ==
  pc = "returned" =>
    \A p \in dirty_paths :
      IF file_cache[p] = MISSING
      THEN \/ ~exists(workspace, JoinAbs(p))
           \/ /\ isdir(workspace, JoinAbs(p))
              /\ \E q \in dirty_paths :
                   q # p /\ IsPrefix(p, q) /\ file_cache[q] # MISSING
      ELSE NodeAt(workspace, JoinAbs(p)) = File(file_cache[p])

\* A file that existed was deleted and another path was written.
C3_Witness ==
  /\ pc = "returned"
  /\ \E p, q \in dirty_paths :
       /\ file_cache[p] = MISSING /\ OnDisk(workspace0, p) # MISSING
       /\ file_cache[q] # MISSING /\ OnDisk(workspace0, q) # file_cache[q]

\* C4: the list returned is in ascending order without duplicates and holds
\* every relative path whose file content or presence differs from the one
\* on disk before the call.
C4_ResultSortedAndComplete ==
  pc = "returned" =>
    /\ \A i \in 1..(Len(result) - 1) : PathLess(result[i], result[i + 1])
    /\ \A p \in RelPaths :
         OnDisk(workspace, p) # OnDisk(workspace0, p) => p \in Range(result)

\* Two paths were changed and returned.
C4_Witness ==
  /\ pc = "returned"
  /\ Len(result) >= 2
  /\ \A p \in Range(result) : OnDisk(workspace, p) # OnDisk(workspace0, p)

C6_PathEscapeRejected ==
  /\ (idx >= 1 /\ \/ ("path" \in last_edit.has /\ BadPath(last_edit.path))
                  \/ /\ last_edit.op = "move_file"
                     /\ "new_path" \in last_edit.has
                     /\ BadPath(last_edit.new_path))
       => pc = "raised" /\ raised_in = "ops" /\ workspace = workspace0
  /\ \A p \in FsPaths :
       ~(IsPrefix(workspace_abs, p) /\ p # workspace_abs) => workspace[p] = workspace0[p]

\* create_file with path "../o" was rejected as an escape, after an operation
\* that was applied.
C6_Witness ==
  /\ pc = "raised"
  /\ last_edit.op = "create_file"
  /\ "content" \in last_edit.has
  /\ last_edit.path = <<"..", "o">>
  /\ error.kind = "PathEscape"
  /\ error.idx = 2

\* C7: on the in-transaction state of its path (the cache, the disk only for
\* a path not referenced before), create_file raises already-exists exactly
\* when the path is present and otherwise, given its content, makes it
\* present with that content; delete_file raises not-found exactly when it is
\* absent and otherwise makes it absent; a text edit raises
\* target-file-not-found exactly when it is absent.
C7_LifecycleOnTransactionState ==
  [][(OpStep /\ "path" \in last_edit'.has /\ ~BadPath(last_edit'.path)
             /\ Loadable(normpath(last_edit'.path)))
     => LET e == last_edit'
            p == normpath(e.path)
            present == InTx(p) # MISSING
        IN /\ e.op = "create_file" =>
                /\ (error'.kind = "AlreadyExists") <=> present
                /\ (~present /\ "content" \in e.has) =>
                      Applied /\ file_cache'[p] = e.content /\ p \in dirty_paths'
           /\ e.op = "delete_file" =>
                /\ (error'.kind = "DeleteNotFound") <=> ~present
                /\ present => Applied /\ file_cache'[p] = MISSING /\ p \in dirty_paths'
           /\ e.op \in TEXT_EDIT_OPS =>
                (error'.kind = "TargetFileNotFound") <=> ~present
           /\ (error'.kind \in {"AlreadyExists", "DeleteNotFound", "TargetFileNotFound"})
                => error'.idx = idx'
    ]_vars

\* A file that is on disk was deleted and then created again in one
\* transaction: the create_file was applied.
C7_Witness ==
  /\ pc = "ops"
  /\ last_edit.op = "create_file"
  /\ "path" \in last_edit.has
  /\ OnDisk(workspace0, normpath(last_edit.path)) # MISSING
  /\ file_cache[normpath(last_edit.path)] = last_edit.content

\* C8: a move_file with a path and a new_path is applied exactly when, on the
\* in-transaction state, the source is present, the destination is absent
\* and the normalized paths differ; then the destination holds the content the
\* source had and the source is absent.  Right after it a text edit of the old
\* path raises target-file-not-found and an applied text edit of the new path
\* leaves there the edit of the moved content.
C8_MoveFile ==
  [][/\ (OpStep /\ last_edit'.op = "move_file"
           /\ {"path", "new_path"} \subseteq last_edit'.has
           /\ ~BadPath(last_edit'.path) /\ ~BadPath(last_edit'.new_path)
           /\ Loadable(normpath(last_edit'.path))
           /\ Loadable(normpath(last_edit'.new_path)))
        => LET src == normpath(last_edit'.path)
               dst == normpath(last_edit'.new_path)
           IN /\ Applied <=> (InTx(src) # MISSING /\ InTx(dst) = MISSING /\ src # dst)
              /\ Applied => /\ file_cache'[dst] = InTx(src)
                            /\ file_cache'[src] = MISSING
                            /\ dirty_paths' = dirty_paths \cup {src, dst}
                            /\ OnlyChanged({src, dst})
     /\ (OpStep /\ idx >= 1 /\ last_edit.op = "move_file"
           /\ last_edit'.op \in TEXT_EDIT_OPS /\ "path" \in last_edit'.has
           /\ "path" \in last_edit.has)
        => LET src == normpath(last_edit.path)
               dst == normpath(last_edit.new_path)
               p == IF BadPath(last_edit'.path) THEN None ELSE normpath(last_edit'.path)
           IN /\ p = src => ~Applied /\ error'.kind = "TargetFileNotFound"
              /\ (p = dst /\ Applied) =>
                    file_cache'[dst] = apply_text_edit(file_cache[dst], last_edit', idx').val
    ]_vars

\* A file that is on disk was moved to a path that was absent.
C8_Witness ==
  /\ pc = "ops"
  /\ last_edit.op = "move_file"
  /\ {"path", "new_path"} \subseteq last_edit.has
  /\ file_cache[normpath(last_edit.path)] = MISSING
  /\ file_cache[normpath(last_edit.new_path)] = OnDisk(workspace0, normpath(last_edit.path))
  /\ OnDisk(workspace0, normpath(last_edit.path)) # MISSING

\* C9: a text edit without path raises missing-path, with the disk unchanged,
\* when the call has no default path, and otherwise edits the default path
\* and no other; a text edit with a path edits that path and no other, the
\* default path included.
C9_DefaultPath ==
  [][(OpStep /\ last_edit'.op \in TEXT_EDIT_OPS)
     => LET e == last_edit'
        IN IF "path" \notin e.has
           THEN IF default_rel = None
                THEN /\ pc' = "raised"
                     /\ error' = Err("MissingPath", idx', "path")
                     /\ workspace' = workspace0
                ELSE Applied =>
                       /\ dirty_paths' = dirty_paths \cup {default_rel}
                       /\ OnlyChanged({default_rel})
                       /\ file_cache'[default_rel]
                            = apply_text_edit(InTx(default_rel), e, idx').val
           ELSE Applied =>
                  /\ dirty_paths' = dirty_paths \cup {normpath(e.path)}
                  /\ OnlyChanged({normpath(e.path)})
                  /\ file_cache'[normpath(e.path)]
                       = apply_text_edit(InTx(normpath(e.path)), e, idx').val
    ]_vars

\* A text edit without path changed the default file, in a workspace that
\* holds another file.
C9_Witness ==
  /\ pc = "returned"
  /\ last_edit.op \in TEXT_EDIT_OPS
  /\ "path" \notin last_edit.has
  /\ result = <<default_rel>>
  /\ OnDisk(workspace, default_rel) # OnDisk(workspace0, default_rel)
  /\ \E q \in RelPaths \ {default_rel} :
       OnDisk(workspace0, q) # MISSING /\ OnDisk(workspace, q) = OnDisk(workspace0, q)

\* ------------------------------------------------------ the snippet lookup

\* The longest needle handed to the snippet lookup on its own.
MaxNeedle == 2

\* The largest occurrence handed to the snippet lookup on its own.
MaxOccurrence == 3

\* The workspace transaction is not running.
WsIdle ==
  /\ workspace = DiskOf(Dir, Absent, Absent, Absent)
  /\ default_path = None
  /\ pc = "idle"
  /\ default_rel = None
  /\ file_cache = EmptyCache
  /\ dirty_paths = {}
  /\ idx = 0
  /\ pending = <<>>
  /\ result = <<>>
  /\ error = NoErr
  /\ workspace0 = workspace
  /\ last_edit = Blank
  /\ raised_in = "none"
  /\ targets = {}
  /\ writes = {}

\* A call _find_occurrence(haystack, needle, occurrence, idx, field) is about
\* to be made, with any arguments within the bounds.
InitFind ==
  /\ WsIdle
  /\ call \in [fn : {"_find_occurrence"},
               haystack : TextsUpTo(MaxHay),
               needle : TextsUpTo(MaxNeedle),
               occurrence : {NoOccurrence} \cup 1..MaxOccurrence,
               idx : {1},
               field : {"old", "anchor"}]
  /\ ret = NotCalled

\* The call is made and returns or raises.
CallFindOccurrence ==
  /\ call.fn = "_find_occurrence"
  /\ ret = NotCalled
  /\ ret' = find_occurrence(call.haystack, call.needle, call.occurrence, call.idx, call.field)
  /\ UNCHANGED <<call, wsVars>>

NextFind == CallFindOccurrence

SpecFind == InitFind /\ [][NextFind]_vars

\* The 0-based positions at which needle occurs in haystack, overlapping
\* occurrences included.
Matches(haystack, needle) ==
  {p \in 0..(Len(haystack) - Len(needle)) :
     \A i \in 1..Len(needle) : haystack[p + i] = needle[i]}

\* C10: for a non-empty needle with n matches, n = 0 raises snippet-not-found;
\* occurrence omitted and n > 1 raises ambiguous, naming n; occurrence k > n
\* raises out-of-range; otherwise the k-th match from the left (1-based, the
\* only match when occurrence is omitted) is returned.  An empty needle is
\* always rejected.
C10_OccurrenceResolution ==
  ret # NotCalled =>
    LET matches == Matches(call.haystack, call.needle)
        n == Cardinality(matches)
        k == call.occurrence
        raises(kind) == ~ret.ok /\ ret.err.kind = kind /\ ret.err.idx = call.idx
                        /\ ret.err.field = call.field
    IN IF call.needle = <<>> THEN raises("EmptyField")
       ELSE IF n = 0 THEN raises("SnippetNotFound")
       ELSE IF k = NoOccurrence /\ n > 1 THEN raises("AmbiguousSnippet") /\ ret.err.n = n
       ELSE IF k # NoOccurrence /\ k > n THEN raises("OccurrenceOutOfRange")
       ELSE /\ ret.ok
            /\ ret.val \in matches
            /\ Cardinality({q \in matches : q < ret.val})
                 = (IF k = NoOccurrence THEN 0 ELSE k - 1)

\* The second of several matches was selected.
C10_Witness ==
  /\ ret.ok
  /\ call.occurrence = 2
  /\ Cardinality(Matches(call.haystack, call.needle)) >= 3
  /\ ret.val >= 1

\* The text is a run of the character c.
RunOf(text, c) == \A i \in 1..Len(text) : text[i] = c

\* C15: the lookup counts overlapping occurrences.  A needle that is a run of
\* m characters c in a haystack that is a run of h >= m characters c has
\* h - m + 1 matches, one at every position from 0: without occurrence it is
\* ambiguous as soon as h > m, and occurrence k selects the match that starts
\* at the k-th character.  ("xx" in "xxx": two matches, occurrence 2 selects
\* the one starting at the second character.)
C15_OverlappingMatchesCounted ==
  (ret # NotCalled /\ call.fn = "_find_occurrence" /\ call.needle # <<>>
     /\ Len(call.needle) <= Len(call.haystack)
     /\ \E c \in Chars : RunOf(call.haystack, c) /\ RunOf(call.needle, c))
    => LET n == Len(call.haystack) - Len(call.needle) + 1
           k == call.occurrence
       IN IF k = NoOccurrence
          THEN IF n > 1
               THEN ~ret.ok /\ ret.err.kind = "AmbiguousSnippet" /\ ret.err.n = n
               ELSE ret = Ok(0)
          ELSE IF k > n
               THEN ~ret.ok /\ ret.err.kind = "OccurrenceOutOfRange" /\ ret.err.n = n
               ELSE ret = Ok(k - 1)

\* Occurrence 2 of a two-character needle selected the match that overlaps
\* the first one.
C15_Witness ==
  /\ call.fn = "_find_occurrence"
  /\ Len(call.needle) = 2
  /\ Len(call.haystack) = 3
  /\ \E c \in Chars : RunOf(call.haystack, c) /\ RunOf(call.needle, c)
  /\ call.occurrence = 2
  /\ ret = Ok(1)

\* ------------------------------------------------------ the text primitives

\* The longest text handed to a text edit on its own.
MaxText == 3

\* The longest text a text edit on its own replaces a snippet by or inserts.
MaxNew == 1

\* The snippet operations a text edit is called with on its own: every
\* snippet and anchor up to MaxNeedle, every new or inserted text up to
\* MaxNew, the occurrence omitted or up to MaxOccurrence.
SnippetEdits ==
  LET selected(e) == {e} \cup {With(e, "occurrence", k) : k \in 1..MaxOccurrence}
      replaces == {With(With(Op("replace_snippet"), "old", s), "new", t) :
                     s \in TextsUpTo(MaxNeedle), t \in TextsUpTo(MaxNew)}
                  \cup {With(With(Op("replace_snippet"), "old", s), "new", s) :
                          s \in TextsUpTo(MaxNeedle)}
      deletes == {With(Op("delete_snippet"), "old", s) : s \in TextsUpTo(MaxNeedle)}
      inserts == {With(With(Op(o), "anchor", s), "text", t) :
                    o \in {"insert_before", "insert_after"},
                    s \in TextsUpTo(MaxNeedle), t \in TextsUpTo(MaxNew)}
  IN UNION {selected(e) : e \in replaces \cup deletes \cup inserts}

\* A call _apply_text_edit(text, edit, idx) is about to be made; prior holds
\* the texts of the calls it follows.
InitText ==
  /\ WsIdle
  /\ call \in [fn : {"_apply_text_edit"},
               text : TextsUpTo(MaxText),
               edit : SnippetEdits,
               idx : {1},
               prior : {<<>>}]
  /\ ret = NotCalled

\* The call is made and returns or raises.
CallApplyTextEdit ==
  /\ call.fn = "_apply_text_edit"
  /\ ret = NotCalled
  /\ ret' = apply_text_edit(call.text, call.edit, call.idx)
  /\ UNCHANGED <<call, wsVars>>

\* The loop of apply_edit_instructions on a list that repeats the operation:
\* the operation is about to be applied again, to its own result.
Reapply ==
  /\ call.fn = "_apply_text_edit"
  /\ call.idx = 1
  /\ ret.ok
  /\ call' = [call EXCEPT !.text = ret.val, !.idx = 2, !.prior = <<call.text>>]
  /\ ret' = NotCalled
  /\ UNCHANGED wsVars

NextText == CallApplyTextEdit \/ Reapply

SpecText == InitText /\ [][NextText]_vars

\* The match the occurrence k selects among the matches of needle in haystack:
\* the k-th from the left, the first when k is omitted.
Selects(haystack, needle, k, p) ==
  /\ p \in Matches(haystack, needle)
  /\ Cardinality({q \in Matches(haystack, needle) : q < p})
       = (IF k = NoOccurrence THEN 0 ELSE k - 1)

\* res is text with the span of length cut at 0-based position p replaced by
\* put, character by character.
Spliced(res, text, p, cut, put) ==
  /\ Len(res) = Len(text) - cut + Len(put)
  /\ \A i \in 1..p : res[i] = text[i]
  /\ \A i \in 1..Len(put) : res[p + i] = put[i]
  /\ \A i \in (p + cut + 1)..Len(text) : res[i - cut + Len(put)] = text[i]

\* The occurrence of the operation of the call, NoOccurrence when omitted.
CallOccurrence ==
  IF "occurrence" \in call.edit.has THEN call.edit.occurrence ELSE NoOccurrence

\* C11: a replace_snippet or delete_snippet that succeeds returns the text
\* before the selected match, then new (nothing for delete), then the text
\* after the match: every character outside the match span is unchanged and
\* the length is len(text) - len(old) + len(new).
C11_ReplaceOnlyTheMatch ==
  (ret.ok /\ call.fn = "_apply_text_edit"
     /\ call.edit.op \in {"replace_snippet", "delete_snippet"})
    => \E p \in 0..Len(call.text) :
         /\ Selects(call.text, call.edit.old, CallOccurrence, p)
         /\ Spliced(ret.val, call.text, p, Len(call.edit.old),
                    IF call.edit.op = "delete_snippet" THEN <<>> ELSE call.edit.new)

\* The second of two matches was replaced by a different text and the first
\* was left alone.
C11_Witness ==
  /\ ret.ok
  /\ call.fn = "_apply_text_edit"
  /\ call.edit.op = "replace_snippet"
  /\ CallOccurrence = 2
  /\ call.edit.new # call.edit.old
  /\ call.edit.new # <<>>
  /\ Cardinality(Matches(call.text, call.edit.old)) >= 2
  /\ Cardinality(Matches(ret.val, call.edit.old)) >= 1

\* The replace_snippet that stands for an insert operation: old is the
\* anchor, new is the inserted text put before or after the anchor.
AsReplace(edit) ==
  [edit EXCEPT !.op = "replace_snippet",
               !.has = (@ \ {"anchor", "text"}) \cup {"old", "new"},
               !.old = edit.anchor,
               !.new = IF edit.op = "insert_before" THEN edit.text \o edit.anchor
                       ELSE edit.anchor \o edit.text,
               !.anchor = <<>>,
               !.text = <<>>]

\* C12: an insert_before that succeeds returns the text with the inserted
\* text right before the start of the selected anchor match, an insert_after
\* right after its end, nothing else changed; and an insert operation succeeds
\* exactly when the replace_snippet with old = anchor and new = text + anchor
\* (anchor + text for insert_after) does, with the same result, and fails with
\* the same kind of error otherwise.
C12_InsertRelative ==
  (ret # NotCalled /\ call.fn = "_apply_text_edit"
     /\ call.edit.op \in {"insert_before", "insert_after"})
    => /\ ret.ok =>
            \E p \in 0..Len(call.text) :
              /\ Selects(call.text, call.edit.anchor, CallOccurrence, p)
              /\ Spliced(ret.val, call.text,
                         IF call.edit.op = "insert_before" THEN p
                         ELSE p + Len(call.edit.anchor),
                         0, call.edit.text)
       /\ LET same == apply_text_edit(call.text, AsReplace(call.edit), call.idx)
          IN /\ ret.ok = same.ok
             /\ ret.val = same.val
             /\ ret.err.kind = same.err.kind
             /\ ret.err.idx = same.err.idx
             /\ ret.err.n = same.err.n

\* A text was inserted before the second of two anchor matches.
C12_Witness ==
  /\ ret.ok
  /\ call.fn = "_apply_text_edit"
  /\ call.edit.op = "insert_before"
  /\ CallOccurrence = 2
  /\ call.edit.text # <<>>
  /\ call.edit.text # call.edit.anchor
  /\ Len(ret.val) = Len(call.text) + Len(call.edit.text)

\* C14: for a replace_snippet without occurrence whose old occurs exactly once
\* in the text, the second application, on the result of the first, succeeds
\* with that same result only if new = old, and raises snippet-not-found when
\* old does not occur in the result of the first.
C14_ReapplyReplace ==
  (ret # NotCalled /\ call.fn = "_apply_text_edit" /\ call.idx = 2
     /\ call.edit.op = "replace_snippet" /\ "occurrence" \notin call.edit.has
     /\ Cardinality(Matches(call.prior[1], call.edit.old)) = 1)
    => /\ (ret.ok /\ ret.val = call.text) => call.edit.new = call.edit.old
       /\ Matches(call.text, call.edit.old) = {}
            => ~ret.ok /\ ret.err.kind = "SnippetNotFound" /\ ret.err.field = "old"

\* The second application failed because the first removed the only match.
C14_Witness ==
  /\ call.fn = "_apply_text_edit"
  /\ call.idx = 2
  /\ call.edit.op = "replace_snippet"
  /\ "occurrence" \notin call.edit.has
  /\ Cardinality(Matches(call.prior[1], call.edit.old)) = 1
  /\ call.text # call.prior[1]
  /\ ~ret.ok
  /\ ret.err.kind = "SnippetNotFound"

\* ------------------------------------------- one file, a list of text edits

\* The longest instruction list of a transaction whose list is given.
MaxList == 3

\* The loop of apply_edit_instructions from operation at on: each operation
\* is applied to the text the ones before it left, and the first error is the
\* one raised.
RECURSIVE apply_edits_from(_, _, _)
apply_edits_from(updated, edits, at) ==
  IF at > Len(edits) THEN Ok(updated)
  ELSE LET next == apply_text_edit(updated, edits[at], at)
       IN IF ~next.ok THEN next
          ELSE apply_edits_from(next.val, edits, at + 1)

\* apply_edit_instructions
apply_edit_instructions(original_text, edits) == apply_edits_from(original_text, edits, 1)

\* The lists of at most n text edit operations without path.
ListsUpTo(n) == UNION {[1..k -> TextEdits] : k \in 0..n}

\* A call apply_workspace_edit_instructions(workspace_dir, edits,
\* default_path=...) with a list of text edit operations without path, on a
\* workspace that holds the default file.
InitList ==
  /\ workspace \in InitDisks
  /\ default_path \in {<<"c">>, <<"a">>, <<"a", "..", "c">>}
  /\ OnDisk(workspace, default_path) # MISSING
  /\ pc = "begin"
  /\ default_rel = None
  /\ file_cache = EmptyCache
  /\ dirty_paths = {}
  /\ idx = 0
  /\ pending = <<>>
  /\ result = <<>>
  /\ error = NoErr
  /\ workspace0 = workspace
  /\ last_edit = Blank
  /\ raised_in = "none"
  /\ targets = {}
  /\ writes = {}
  /\ call \in [fn : {"apply_workspace_edit_instructions"}, edits : ListsUpTo(MaxList)]
  /\ ret = NotCalled

\* The pass of the operation loop taking the operations from the end of the
\* list.
ApplyListedFromEnd ==
  /\ pc = "ops"
  /\ call.fn = "apply_workspace_edit_instructions"
  /\ idx < Len(call.edits)
  /\ TakeOver(call.edits[Len(call.edits) - idx],
              loop_body(file_cache, dirty_paths, workspace, default_rel,
                        call.edits[Len(call.edits) - idx], idx + 1))
  /\ UNCHANGED <<workspace, default_path, default_rel, result, workspace0, writes>>
  /\ UNCHANGED pureVars

\* One pass of the loop over the operations of the given list: operation
\* idx + 1 is applied.
ApplyListed ==
  /\ pc = "ops"
  /\ call.fn = "apply_workspace_edit_instructions"
  /\ idx < Len(call.edits)
  /\ TakeOver(call.edits[idx + 1],
              loop_body(file_cache, dirty_paths, workspace, default_rel,
                        call.edits[idx + 1], idx + 1))
  /\ UNCHANGED <<workspace, default_path, default_rel, result, workspace0, writes>>
  /\ UNCHANGED pureVars

\* The given list is exhausted: the commit loop starts on sorted(dirty_paths).
EndOfListed ==
  /\ pc = "ops"
  /\ call.fn = "apply_workspace_edit_instructions"
  /\ idx = Len(call.edits)
  /\ pc' = "commit"
  /\ pending' = sorted(dirty_paths)
  /\ UNCHANGED <<workspace, default_path, default_rel, file_cache, dirty_paths, idx,
                 result, error, workspace0, last_edit, raised_in, targets, writes>>
  /\ UNCHANGED pureVars

NextList == Begin \/ ApplyListed \/ EndOfListed \/ CommitPath \/ Return

SpecList == InitList /\ [][NextList]_vars

\* The default file of the call, and its content when the call was made.
DefaultFile == normpath(default_path)

InitialText == OnDisk(workspace0, DefaultFile)

\* C13: the operations are applied in list order, each on the text the
\* previous ones produced: after k operations the in-transaction text of the
\* default file is what apply_edit_instructions returns for the file's initial
\* content and the first k operations; the call returns exactly when
\* apply_edit_instructions succeeds on the whole list, leaving its result in
\* the file, and raises exactly when it fails, with the same error and the
\* file unchanged.
C13_WorkspaceRefinesSingleFile ==
  call.fn = "apply_workspace_edit_instructions" =>
    LET whole == apply_edit_instructions(InitialText, call.edits)
        sofar == apply_edit_instructions(InitialText, SubSeq(call.edits, 1, idx))
    IN /\ (pc = "ops" /\ idx >= 1) => sofar.ok /\ file_cache[DefaultFile] = sofar.val
       /\ pc = "returned" =>
            /\ whole.ok
            /\ NodeAt(workspace, JoinAbs(DefaultFile)) = File(whole.val)
       /\ pc = "raised" =>
            /\ ~whole.ok
            /\ error = whole.err
            /\ OnDisk(workspace, DefaultFile) = InitialText

\* A list of two operations whose order matters was applied to the default
\* file and the call returned.
C13_Witness ==
  /\ pc = "returned"
  /\ call.fn = "apply_workspace_edit_instructions"
  /\ Len(call.edits) = 2
  /\ OnDisk(workspace, DefaultFile) # InitialText
  /\ LET swapped == apply_edit_instructions(InitialText, <<call.edits[2], call.edits[1]>>)
     IN swapped.ok /\ swapped.val # OnDisk(workspace, DefaultFile)

\* ------------------------------------------------- the response of the model
\*
\* A response text is a sequence of symbols: the characters { } [ ] : , " \
\* and the space, and words (a run of letters or digits taken as one symbol).
\* Outside a string literal a word stands alone between punctuation.

\* What json.loads returns: a value of JSON.  A string holds its symbols, an
\* array its items in order, an object its keys and, at the same positions,
\* their values (in the order of the text; a dict keeps the last value of a
\* repeated key).
JValue(t, s, keys, items) == [t |-> t, s |-> s, keys |-> keys, items |-> items]

JNull == JValue("null", <<>>, <<>>, <<>>)

JNumber == JValue("number", <<>>, <<>>, <<>>)

JString(s) == JValue("string", s, <<>>, <<>>)

JArray(items) == JValue("array", <<>>, <<>>, items)

JObject(keys, items) == JValue("object", <<>>, keys, items)

\* The outcome of parsing a piece of the text: the value and the 1-based
\* position after it.
Parsed(v, pos) == [ok |-> TRUE, val |-> v, pos |-> pos]

NotParsed == [ok |-> FALSE, val |-> JNull, pos |-> 0]

\* The position of the first symbol that is not white space, from i on.
RECURSIVE skip_ws(_, _)
skip_ws(s, i) == IF i <= Len(s) /\ s[i] = " " THEN skip_ws(s, i + 1) ELSE i

\* The rest of a string literal, from position i (after the opening quote):
\* it ends at the first quote that is not escaped; a backslash escapes a quote
\* or a backslash and nothing else.
RECURSIVE parse_chars(_, _, _)
parse_chars(s, i, acc) ==
  IF i > Len(s) THEN NotParsed
  ELSE IF s[i] = "\"" THEN Parsed(acc, i + 1)
  ELSE IF s[i] = "\\"
       THEN IF i + 1 <= Len(s) /\ s[i + 1] \in {"\"", "\\"}
            THEN parse_chars(s, i + 2, Append(acc, s[i + 1]))
            ELSE NotParsed
  ELSE parse_chars(s, i + 1, Append(acc, s[i]))

RECURSIVE parse_value(_, _)
RECURSIVE parse_elements(_, _, _)
RECURSIVE parse_members(_, _, _, _)

\* The items of an array, from position i on, up to the closing bracket.
parse_elements(s, i, acc) ==
  LET item == parse_value(s, i)
      j == skip_ws(s, item.pos)
  IN IF ~item.ok \/ j > Len(s) THEN NotParsed
     ELSE IF s[j] = "," THEN parse_elements(s, j + 1, Append(acc, item.val))
     ELSE IF s[j] = "]" THEN Parsed(JArray(Append(acc, item.val)), j + 1)
     ELSE NotParsed

\* The members of an object, from position i on, up to the closing brace.
parse_members(s, i, keys, items) ==
  LET k == skip_ws(s, i)
      key == parse_chars(s, k + 1, <<>>)
      c == skip_ws(s, key.pos)
      item == parse_value(s, c + 1)
      j == skip_ws(s, item.pos)
  IN IF k > Len(s) \/ s[k] # "\"" THEN NotParsed
     ELSE IF ~key.ok \/ c > Len(s) \/ s[c] # ":" THEN NotParsed
     ELSE IF ~item.ok \/ j > Len(s) THEN NotParsed
     ELSE IF s[j] = ","
          THEN parse_members(s, j + 1, Append(keys, key.val), Append(items, item.val))
     ELSE IF s[j] = "}"
          THEN Parsed(JObject(Append(keys, key.val), Append(items, item.val)), j + 1)
     ELSE NotParsed

\* The value that starts at position i, white space skipped.
parse_value(s, i) ==
  LET k == skip_ws(s, i)
      j == skip_ws(s, k + 1)
      chars == parse_chars(s, k + 1, <<>>)
  IN IF k > Len(s) THEN NotParsed
     ELSE CASE s[k] = "{" ->
                 IF j <= Len(s) /\ s[j] = "}" THEN Parsed(JObject(<<>>, <<>>), j + 1)
                 ELSE parse_members(s, k + 1, <<>>, <<>>)
            [] s[k] = "[" ->
                 IF j <= Len(s) /\ s[j] = "]" THEN Parsed(JArray(<<>>), j + 1)
                 ELSE parse_elements(s, k + 1, <<>>)
            [] s[k] = "\"" ->
                 IF chars.ok THEN Parsed(JString(chars.val), chars.pos) ELSE NotParsed
            [] s[k] = "1" -> Parsed(JNumber, k + 1)
            [] s[k] = "null" -> Parsed(JNull, k + 1)
            [] OTHER -> NotParsed

\* json.loads: the value the whole text is, or JSONDecodeError when the text
\* is not one JSON value (extra data after the value included).
json_loads(s) ==
  LET v == parse_value(s, 1)
  IN IF v.ok /\ skip_ws(s, v.pos) > Len(s) THEN Ok(v.val)
     ELSE [ok |-> FALSE, val |-> JNull, err |-> Err("JSONDecodeError", 0, "")]

\* dict.get(key) for a key of one word: the value of the key (the last one
\* when it is repeated), None -- which is also what a JSON null is -- when the
\* key is missing.
get(payload, key) ==
  LET at == {i \in 1..Len(payload.keys) : payload.keys[i] = <<key>>}
  IN IF at = {} THEN JNull
     ELSE payload.items[CHOOSE i \in at : \A j \in at : j <= i]

\* str.strip(): the text without its leading and trailing white space.
RECURSIVE strip(_)
strip(s) ==
  IF s = <<>> THEN s
  ELSE IF s[1] = " " THEN strip(Tail(s))
  ELSE IF s[Len(s)] = " " THEN strip(SubSeq(s, 1, Len(s) - 1))
  ELSE s

\* The loop of _extract_first_json_object from the 0-based position i on,
\* with the locals in_string, escaped, depth and start_idx.
RECURSIVE extract_from(_, _, _, _, _, _)
extract_from(text, i, in_string, escaped, depth, start_idx) ==
  CASE i >= Len(text) -> None
    [] i < Len(text) /\ in_string /\ escaped ->
         extract_from(text, i + 1, TRUE, FALSE, depth, start_idx)
    [] i < Len(text) /\ in_string /\ ~escaped /\ text[i + 1] = "\\" ->
         extract_from(text, i + 1, TRUE, TRUE, depth, start_idx)
    [] i < Len(text) /\ in_string /\ ~escaped /\ text[i + 1] = "\"" ->
         extract_from(text, i + 1, FALSE, FALSE, depth, start_idx)
    [] i < Len(text) /\ ~in_string /\ text[i + 1] = "\"" ->
         extract_from(text, i + 1, TRUE, escaped, depth, start_idx)
    [] i < Len(text) /\ ~in_string /\ text[i + 1] = "{" /\ depth = 0 ->
         extract_from(text, i + 1, FALSE, escaped, 1, i)
    [] i < Len(text) /\ ~in_string /\ text[i + 1] = "{" /\ depth # 0 ->
         extract_from(text, i + 1, FALSE, escaped, depth + 1, start_idx)
    [] i < Len(text) /\ ~in_string /\ text[i + 1] = "}" /\ depth = 1 /\ start_idx >= 0 ->
         Slice(text, start_idx, i + 1)
    [] i < Len(text) /\ ~in_string /\ text[i + 1] = "}" /\ depth > 1 ->
         extract_from(text, i + 1, FALSE, escaped, depth - 1, start_idx)
    [] OTHER -> extract_from(text, i + 1, in_string, escaped, depth, start_idx)

\* _extract_first_json_object: the first balanced {...} of the text, braces in
\* string literals not counted, or None.
extract_first_json_object(text) == extract_from(text, 0, FALSE, FALSE, 0, -1)

\* What parse_edit_instructions returns, and its failure.
Instructions(edits, sanitized) ==
  [ok |-> TRUE, val |-> [edits |-> edits, sanitized |-> sanitized], err |-> NoErr]

Malformed(kind, at) ==
  [ok |-> FALSE, val |-> [edits |-> <<>>, sanitized |-> FALSE], err |-> Err(kind, at, "")]

\* The checks of parse_edit_instructions on the payload: an object whose
\* "edits" is a non-empty list of objects that each have a non-empty string
\* "op"; the first element that fails is the one named.
check_payload(payload, sanitized) ==
  LET edits == get(payload, "edits")
      bad == {i \in 1..Len(edits.items) :
                \/ edits.items[i].t # "object"
                \/ get(edits.items[i], "op").t # "string"
                \/ get(edits.items[i], "op").s = <<>>}
      first == CHOOSE i \in bad : \A j \in bad : i <= j
  IN IF payload.t # "object" THEN Malformed("NotAnObject", 0)
     ELSE IF edits.t # "array" \/ edits.items = <<>> THEN Malformed("NoEditsList", 0)
     ELSE IF bad # {}
          THEN IF edits.items[first].t # "object" THEN Malformed("EditNotObject", first)
               ELSE Malformed("MissingOp", first)
     ELSE Instructions(edits.items, sanitized)

\* parse_edit_instructions that takes an empty "edits" list.
ParseAcceptsEmptyList(response_text) ==
  LET stripped == strip(response_text)
      direct == json_loads(stripped)
      json_blob == extract_first_json_object(stripped)
      payload == IF direct.ok THEN direct.val ELSE json_loads(json_blob).val
      edits == get(payload, "edits")
  IN IF ~direct.ok /\ json_blob = None THEN Malformed("NotJson", 0)
     ELSE IF ~direct.ok /\ ~json_loads(json_blob).ok THEN Malformed("InvalidJson", 0)
     ELSE IF payload.t = "object" /\ edits.t = "array" /\ edits.items = <<>>
          THEN Instructions(<<>>, ~direct.ok /\ json_blob # stripped)
     ELSE check_payload(payload, ~direct.ok /\ json_blob # stripped)

\* parse_edit_instructions: the whole stripped response as JSON, or else the
\* first balanced object found in it.
parse_edit_instructions(response_text) ==
  LET stripped == strip(response_text)
      direct == json_loads(stripped)
      json_blob == extract_first_json_object(stripped)
  IN IF direct.ok THEN check_payload(direct.val, FALSE)
     ELSE IF json_blob = None THEN Malformed("NotJson", 0)
     ELSE IF ~json_loads(json_blob).ok THEN Malformed("InvalidJson", 0)
     ELSE check_payload(json_loads(json_blob).val, json_blob # stripped)

\* A path string of a response as the sequence of its components: the words
\* between the "/" symbols.
RECURSIVE SplitPath(_, _)
SplitPath(s, cur) ==
  IF s = <<>> THEN <<cur>>
  ELSE IF Head(s) = "/" THEN <<cur>> \o SplitPath(Tail(s), "")
  ELSE SplitPath(Tail(s), Head(s))

\* The dict of a parsed element as an edit operation: op is the word of its
\* "op" string; a field is present when the dict holds a string for it (for a
\* value that is no string, edit.get gives what the isinstance tests reject
\* as they reject None); occurrence is present when the dict holds a number.
ToEdit(element) ==
  LET strings == {k \in EditKeys \ {"occurrence"} : get(element, k).t = "string"}
      value(k) == IF k \notin strings THEN <<>>
                  ELSE IF k \in {"path", "new_path"}
                       THEN (IF get(element, k).s = <<>> THEN <<>>
                             ELSE SplitPath(get(element, k).s, ""))
                  ELSE get(element, k).s
  IN [op |-> get(element, "op").s[1],
      has |-> strings \cup (IF get(element, "occurrence").t = "number"
                            THEN {"occurrence"} ELSE {}),
      path |-> value("path"), new_path |-> value("new_path"),
      old |-> value("old"), new |-> value("new"), anchor |-> value("anchor"),
      text |-> value("text"), content |-> value("content"),
      occurrence |-> IF get(element, "occurrence").t = "number" THEN 1 ELSE 0]

\* ---- the responses

Quoted(word) == <<"\"", word, "\"">>

Member(key, value) == Quoted(key) \o <<":">> \o value

RECURSIVE Joined(_)
Joined(parts) ==
  IF parts = <<>> THEN <<>>
  ELSE IF Len(parts) = 1 THEN parts[1]
  ELSE parts[1] \o <<",">> \o Joined(Tail(parts))

ObjectText(members) == <<"{">> \o Joined(members) \o <<"}">>

ArrayText(items) == <<"[">> \o Joined(items) \o <<"]">>

\* The elements parse_edit_instructions takes: a replace_entire_file of the
\* default file; one whose content is the two characters "} (an escaped quote
\* and a brace in a string literal); a create_file; a create_file without its
\* fields; an operation that does not exist.
GoodElements ==
  {ObjectText(<<Member("op", Quoted("replace_entire_file")), Member("content", Quoted("y"))>>),
   ObjectText(<<Member("op", Quoted("replace_entire_file")),
                Member("content", <<"\"", "\\", "\"", "}", "\"">>)>>),
   ObjectText(<<Member("op", Quoted("create_file")), Member("path", Quoted("a")),
                Member("content", Quoted("y"))>>),
   ObjectText(<<Member("op", Quoted("create_file"))>>),
   ObjectText(<<Member("op", Quoted("rename_file")), Member("path", Quoted("c"))>>)}

\* The elements it rejects: a number, an object without op, with an op that
\* is a number, with an empty op.
BadElements ==
  {<<"1">>,
   ObjectText(<<Member("path", Quoted("c"))>>),
   ObjectText(<<Member("op", <<"1">>)>>),
   ObjectText(<<Member("op", <<"\"", "\"">>)>>)}

ElementLists(elements) ==
  {<<e>> : e \in elements} \cup {<<e, f>> : e \in elements, f \in elements}

EditsObject(elements) == ObjectText(<<Member("edits", ArrayText(elements))>>)

\* The JSON objects that are valid edit instructions.
ValidBodies == {EditsObject(l) : l \in ElementLists(GoodElements)}

\* The other bodies of a response: an element that is rejected; an empty
\* list; edits that is no list; no edits; edits given twice; a top-level
\* array, number, null, string; no JSON at all; JSON cut short, without a
\* colon, with a trailing comma; white space inside the object.
OtherBodies ==
  {EditsObject(l) : l \in ElementLists(GoodElements \cup BadElements) \ ElementLists(GoodElements)}
  \cup {EditsObject(<<>>),
        ObjectText(<<Member("edits", ObjectText(<<>>))>>),
        ObjectText(<<Member("edits", <<"null">>)>>),
        ObjectText(<<>>),
        ObjectText(<<Member("op", Quoted("create_file"))>>),
        ObjectText(<<Member("edits", ArrayText(<<>>)),
                     Member("edits", ArrayText(<<ObjectText(<<Member("op", Quoted("create_file"))>>)>>))>>),
        ObjectText(<<Member("edits", ArrayText(<<ObjectText(<<Member("op", Quoted("create_file"))>>)>>)),
                     Member("edits", ArrayText(<<>>))>>),
        ArrayText(<<ObjectText(<<Member("op", Quoted("create_file"))>>)>>),
        <<"1">>, <<"null">>, Quoted("c"), <<"Here">>, <<>>,
        <<"{", "\"", "edits", "\"", ":", "[">>,
        <<"{", "\"", "edits", "\"", "[", "]", "}">>,
        <<"{", "\"", "edits", "\"", ":", "[", "1", ",", "]", "}">>,
        <<"{", " ", "\"", "edits", "\"", " ", ":", " ", "[", " ", "{", "\"", "op", "\"",
          ":", " ", "\"", "rename_file", "\"", " ", "}", " ", "]", " ", "}">>}

\* The text before the body: none, white space, prose, prose with a quoted
\* word, prose with a single quote character, a closing brace, a bracket.
Wrappers ==
  {<<>>, <<" ">>, <<"Here", ":", " ">>, <<"Here", " ", "\"", "c", "\"", " ">>,
   <<"Here", "\"", " ">>, <<"}", " ">>, <<"[">>}

\* The text after the body: none, white space, prose, braces, a quote, a
\* second object, a bracket.
Trailers ==
  {<<>>, <<" ">>, <<" ", "Here">>, <<" ", "}", "{">>, <<"\"">>,
   <<" ", "{", "}">>, <<"]">>}

\* ---- parsing a response and applying its instructions

\* The value json.loads gives parse_edit_instructions: that of the whole
\* stripped response when it is JSON, else that of the first balanced object
\* of it; not ok when there is neither.
Obtained(response_text) ==
  LET stripped == strip(response_text)
      direct == json_loads(stripped)
      json_blob == extract_first_json_object(stripped)
  IN IF direct.ok THEN direct
     ELSE IF json_blob = None THEN json_loads(<<>>)
     ELSE json_loads(json_blob)

\* A response is about to be parsed; the workspace holds the entry file c.
InitParse ==
  /\ workspace \in {DiskOf(Dir, Absent, Absent, File(<<"x">>)),
                    DiskOf(Dir, File(<<"x">>), Absent, File(<<"x", "x">>))}
  /\ default_path = <<"c">>
  /\ pc = "idle"
  /\ default_rel = None
  /\ file_cache = EmptyCache
  /\ dirty_paths = {}
  /\ idx = 0
  /\ pending = <<>>
  /\ result = <<>>
  /\ error = NoErr
  /\ workspace0 = workspace
  /\ last_edit = Blank
  /\ raised_in = "none"
  /\ targets = {}
  /\ writes = {}
  /\ \E w \in Wrappers, b \in ValidBodies \cup OtherBodies, t \in Trailers :
       call = [fn |-> "parse_edit_instructions", response_text |-> w \o b \o t,
               wrapper |-> w, body |-> b, trailing |-> t, edits |-> <<>>,
               whole |-> FALSE, obtained |-> json_loads(<<>>), of_body |-> json_loads(<<>>)]
  /\ ret = NotCalled

\* parse_edit_instructions(response_text) returns or raises.  The call keeps
\* what json.loads makes of the response: whether the whole stripped text is
\* JSON, the value obtained from the response, and the value of the body.
CallParseEditInstructions ==
  /\ call.fn = "parse_edit_instructions"
  /\ ret = NotCalled
  /\ ret' = parse_edit_instructions(call.response_text)
  /\ call' = [call EXCEPT !.whole = json_loads(strip(call.response_text)).ok,
                          !.obtained = Obtained(call.response_text),
                          !.of_body = json_loads(call.body)]
  /\ UNCHANGED wsVars

\* The parsed instructions are handed to apply_workspace_edit_instructions,
\* with the entry file as the default path.
ApplyParsed ==
  /\ call.fn = "parse_edit_instructions"
  /\ ret.ok
  /\ pc = "idle"
  /\ call' = [call EXCEPT !.fn = "apply_workspace_edit_instructions",
                          !.edits = [i \in 1..Len(ret.val.edits) |-> ToEdit(ret.val.edits[i])]]
  /\ pc' = "begin"
  /\ UNCHANGED <<workspace, default_path, default_rel, file_cache, dirty_paths, idx,
                 pending, result, error, workspace0, last_edit, raised_in, targets,
                 writes, ret>>

NextParse ==
  \/ CallParseEditInstructions
  \/ ApplyParsed
  \/ Begin
  \/ ApplyListed
  \/ EndOfListed
  \/ CommitPath
  \/ Return

SpecParse == InitParse /\ [][NextParse]_vars

\* The text is white space only.
Blanks(text) == \A i \in 1..Len(text) : text[i] = " "

\* The value is what edit instructions must be: an object whose edits is a
\* non-empty array of objects that each have a non-empty string op.
WellFormed(payload) ==
  /\ payload.t = "object"
  /\ get(payload, "edits").t = "array"
  /\ get(payload, "edits").items # <<>>
  /\ \A i \in 1..Len(get(payload, "edits").items) :
       LET element == get(payload, "edits").items[i]
       IN /\ element.t = "object"
          /\ get(element, "op").t = "string"
          /\ get(element, "op").s # <<>>

\* C16: parse_edit_instructions raises exactly when no JSON value is obtained
\* from the response (neither the whole stripped text nor its first balanced
\* object is JSON), or the value is not an object, or its edits is missing or
\* not a non-empty array, or an element is not an object or has no non-empty
\* string op; otherwise it returns the elements of edits in their order, and
\* sanitized is false when the whole stripped response is the JSON object.
C16_ParseFailsExactlyOnMalformed ==
  (ret # NotCalled /\ call.fn \in {"parse_edit_instructions", "apply_workspace_edit_instructions"}
     /\ "response_text" \in DOMAIN call)
    => /\ ret.ok <=> (call.obtained.ok /\ WellFormed(call.obtained.val))
       /\ ret.ok =>
            /\ ret.val.edits = get(call.obtained.val, "edits").items
            /\ call.whole => ~ret.val.sanitized
       /\ (Blanks(call.wrapper) /\ Blanks(call.trailing) /\ call.body \in ValidBodies)
            => ret.ok /\ ~ret.val.sanitized /\ call.obtained = call.of_body

\* A response that is the JSON object with white space around it was parsed:
\* two different elements are returned in their order, not sanitized.
C16_Witness ==
  /\ ret.ok
  /\ call.fn = "parse_edit_instructions"
  /\ call.wrapper = <<" ">>
  /\ call.trailing = <<" ">>
  /\ ~ret.val.sanitized
  /\ Len(ret.val.edits) = 2
  /\ get(ret.val.edits[1], "op").s = <<"create_file">>
  /\ get(ret.val.edits[2], "op").s = <<"replace_entire_file">>

\* The text holds no brace.
NoBrace(text) == \A i \in 1..Len(text) : text[i] \notin {"{", "}"}

\* C17: for a response made of wrapper text without a brace, then one valid
\* JSON edits object, then any trailing text, the response not being JSON as
\* a whole, parse_edit_instructions returns the edits of that object with
\* sanitized = true.
C17_WrapperTextStripped ==
  (ret # NotCalled /\ "response_text" \in DOMAIN call
     /\ NoBrace(call.wrapper) /\ call.body \in ValidBodies
     /\ ~call.whole)
    => /\ ret.ok
       /\ ret.val.sanitized
       /\ ret.val.edits = get(call.of_body.val, "edits").items

\* The operations apply_workspace_edit_instructions knows.
KnownOps == TEXT_EDIT_OPS \cup {"create_file", "delete_file", "move_file"}

\* C18: parse_edit_instructions takes an element whose op is unknown or whose
\* fields are missing; apply_workspace_edit_instructions rejects it: the call
\* never gets past the first operation whose op is unknown, where it raises
\* unsupported-operation with the 1-based index of that operation, and
\* whenever the operation loop raises, the index is that of the operation and
\* the disk is as it was, also when valid operations were applied before.
C18_RejectionDeferredToApply ==
  /\ (ret # NotCalled /\ "response_text" \in DOMAIN call
        /\ Blanks(call.wrapper) /\ Blanks(call.trailing) /\ call.body \in ValidBodies)
       => ret.ok
  /\ call.fn = "apply_workspace_edit_instructions" /\ "response_text" \in DOMAIN call =>
       LET unknown == {i \in 1..Len(call.edits) : call.edits[i].op \notin KnownOps}
           first == CHOOSE i \in unknown : \A j \in unknown : i <= j
       IN /\ raised_in = "ops" => error.idx = idx /\ workspace = workspace0
          /\ unknown # {} =>
               /\ pc \in {"begin", "ops", "raised"}
               /\ idx <= first
               /\ (pc = "ops" => idx < first)
               /\ (pc = "raised" /\ idx = first) =>
                     error = Err("UnsupportedOperation", first, "op")

\* The second operation of a parsed list has an unknown op: the first was
\* applied, the second raised unsupported-operation, the disk is unchanged.
C18_Witness ==
  /\ call.fn = "apply_workspace_edit_instructions"
  /\ "response_text" \in DOMAIN call
  /\ pc = "raised"
  /\ error = Err("UnsupportedOperation", 2, "op")
  /\ targets # {}
  /\ workspace = workspace0

\* ------------------------------------------------------- the retry decision
\*
\* A text of a prompt, an error or a note is a sequence of pieces; a piece is
\* a run of characters taken as one symbol.  The pieces are cut so that the
\* tokens decide_next_retry looks for are pieces of their own.

\* token in text: the token occurs in the text.
Contains(text, token) ==
  \E i \in 1..(Len(text) - Len(token) + 1) : SubSeq(text, i, i + Len(token) - 1) = token

\* str(e) of the ValueError that apply_workspace_edit_instructions, its
\* helpers or parse_edit_instructions raise; name is the path, or the op, the
\* message ends with.
Message(e, name) ==
  LET edit == <<"Edit #", ToString(e.idx), ": ">>
      quoted == <<"'", e.field, "'">>
  IN CASE e.kind = "SnippetNotFound" ->
            edit \o quoted \o <<" snippet ", "not found in current source">>
       [] e.kind = "AmbiguousSnippet" ->
            edit \o quoted \o <<" snippet ", "matched", " ", ToString(e.n),
                                " locations; set 'occurrence' to disambiguate">>
       [] e.kind = "OccurrenceOutOfRange" ->
            edit \o <<"occurrence ", ToString(e.n + 1), " ", "out of range", " for ">> \o quoted
                 \o <<" snippet (found ", ToString(e.n), " matches)">>
       [] e.kind = "TargetFileNotFound" -> edit \o <<"target file not found: ", name>>
       [] e.kind = "AlreadyExists" -> edit \o <<"create_file target already exists: ", name>>
       [] e.kind = "PathEscape" -> edit \o <<"field ">> \o quoted \o <<" escapes workspace: ", name>>
       [] e.kind = "FieldNotString" -> edit \o <<"field ">> \o quoted \o <<" must be a string">>
       [] e.kind = "UnsupportedOperation" -> edit \o <<"unsupported operation '", name, "'">>
       [] e.kind = "NotJson" -> <<"Response is not valid JSON edit instructions">>
       [] e.kind = "WorkspaceMissing" -> <<"Workspace directory does not exist: ", name>>
       [] e.kind = "TargetIsDirectory" ->
            edit \o <<"path points to a directory, not a file: ", name>>
       [] e.kind = "DeleteNotFound" -> edit \o <<"delete_file target not found: ", name>>
       [] e.kind = "MoveSame" ->
            edit \o <<"move_file source and destination are the same: ", name>>
       [] e.kind = "MoveSourceNotFound" -> edit \o <<"move_file source not found: ", name>>
       [] e.kind = "MoveDestinationExists" ->
            edit \o <<"move_file destination already exists: ", name>>
       [] e.kind = "DeleteFailed" -> <<"Failed to delete '", name, "': ", "OSError">>
       [] e.kind = "DirectoryExists" ->
            <<"Cannot write file because a directory exists at '", name, "'">>
       [] e.kind = "InvalidOccurrence" ->
            edit \o <<"optional field 'occurrence' must be a positive integer">>
       [] e.kind = "EmptyField" -> edit \o <<"field ">> \o quoted \o <<" cannot be empty">>
       [] e.kind = "AbsolutePath" ->
            edit \o <<"field ">> \o quoted \o <<" must be a relative path: ", name>>
       [] e.kind = "MissingPath" ->
            edit \o <<"missing required field 'path' for multi-file edit instructions">>
       [] OTHER -> <<>>

\* A decision that always asks for the full source.
DecisionAlwaysFullSource(next_prompt, next_mode, note) ==
  Ok([next_prompt |-> next_prompt, next_mode |-> "full_source", note |-> note])

\* A decision that always asks for edits.
DecisionAlwaysEdits(next_prompt, next_mode, note) ==
  Ok([next_prompt |-> next_prompt, next_mode |-> "edits", note |-> note])

\* RetryDecision.
RetryDecision(next_prompt, next_mode, note) ==
  Ok([next_prompt |-> next_prompt, next_mode |-> next_mode, note |-> note])

\* The prompt for edits without the current source.
EditRetryPromptWithoutSource(current_source, issue_text) ==
  issue_text
    \o <<"\n\n", "Apply the smallest possible fix to the current agent_code.s.\n",
         "Return ONLY JSON", " with this shape (no prose, no markdown):\n",
         "{ \"edits\": [ ... ] }\n", "JSON EDIT RULES (critical): ...\n\n",
         "Current agent_code.s:\nassembly\n", "\n\n">>

\* build_edit_retry_prompt.
build_edit_retry_prompt(current_source, issue_text) ==
  issue_text
    \o <<"\n\n", "Apply the smallest possible fix to the current agent_code.s.\n",
         "Return ONLY JSON", " with this shape (no prose, no markdown):\n",
         "{ \"edits\": [ ... ] }\n", "JSON EDIT RULES (critical): ...\n\n",
         "Current agent_code.s:\nassembly\n">>
    \o current_source \o <<"\n\n">>

\* build_edit_apply_issue_prompt.
build_edit_apply_issue_prompt(error_text, last_attempt_feedback) ==
  <<"Your previous response could not be applied as JSON edit instructions.\n",
    "Edit apply error: ">> \o error_text \o <<"\n">>
    \o (IF last_attempt_feedback # <<>>
        THEN <<"\nMost recent compile/runtime feedback from the previous attempt ",
               "(use this to fix the edit content, not just formatting):\n">>
             \o last_attempt_feedback \o <<"\n\n">>
        ELSE <<"\n">>)

\* build_edit_apply_fallback_full_source_prompt.
build_edit_apply_fallback_full_source_prompt(current_source, edit_apply_issue) ==
  edit_apply_issue
    \o <<"Your intended fix may be directionally correct, but the edit instructions were not ",
         "safe to apply to the current file exactly.\n\n",
         "For the next retry, ", "do NOT return JSON edits", ".\n",
         "Return ONLY a full replacement for agent_code.s (no prose, no markdown).\n",
         "Make the smallest logical fix needed while preserving the working parts.\n\n",
         "Current agent_code.s:\nassembly\n">>
    \o current_source \o <<"\n\n">>

\* The prompt after a rejected source that does not say why.
ValidationIssueWithoutError(source_validation_error) ==
  <<"Your previous response contained non-assembly text and was rejected before writing agent_code.s.\n",
    "\n\n", "Return ONLY valid ARM assembly source for agent_code.s (no prose, no markdown, no logs).\n">>

\* build_source_validation_issue_prompt.
build_source_validation_issue_prompt(source_validation_error) ==
  <<"Your previous response contained non-assembly text and was rejected before writing agent_code.s.\n",
    "Validation error: ">> \o source_validation_error
    \o <<"\n\n", "Return ONLY valid ARM assembly source for agent_code.s (no prose, no markdown, no logs).\n">>

\* build_compile_failure_edit_issue.
build_compile_failure_edit_issue(compile_error) ==
  <<"Your previous code failed to compile with the following error:\n">>
    \o compile_error \o <<"\n\n", "Please fix the code.">>

\* build_compile_failure_full_source_prompt.
build_compile_failure_full_source_prompt(compile_error) ==
  <<"Your previous code failed to compile with the following error:\n">>
    \o compile_error
    \o <<"\n\n", "Please fix the code and return ONLY the corrected assembly/C code.">>

\* build_verification_failure_issue.
build_verification_failure_issue(stage, output, timed_out) ==
  <<"The ", IF stage = None \/ stage = <<>> THEN "verification" ELSE stage[1], " command ",
    IF timed_out THEN "timed out" ELSE "failed", ".\n", "Command output:\n">>
    \o output \o <<"\n\n", "Please fix the implementation so verification passes.">>

\* build_verification_failure_full_source_prompt.
build_verification_failure_full_source_prompt(stage, output, timed_out) ==
  build_verification_failure_issue(stage, output, timed_out)
    \o <<"\nReturn ONLY the corrected source output (no prose, no markdown).">>

\* build_timeout_edit_issue.
build_timeout_edit_issue(board_name, run_output) ==
  <<"The code compiled successfully, but running it in ">> \o board_name
    \o <<" timed out after multiple attempts.\n", "Output before timeout:\n">> \o run_output
    \o <<"\n\n", "Ensure you are not stuck in an infinite loop before printing the required output. ",
         "Please fix the logic.">>

\* build_timeout_full_source_prompt.
build_timeout_full_source_prompt(board_name, run_output) ==
  <<"The code compiled successfully, but running it in ">> \o board_name
    \o <<" timed out after multiple attempts.\n", "Output before timeout:\n">> \o run_output
    \o <<"\n\n", "Ensure you are not stuck in an infinite loop before printing the required output. ",
         "Please fix the logic and try again. Return ONLY the corrected assembly/C code.">>

\* build_output_mismatch_edit_issue.
build_output_mismatch_edit_issue(expected_output, run_output) ==
  <<"The code compiled successfully and completed, but the expected output was not found.\n",
    "Output:\n">> \o run_output
    \o <<"\n\n", "We expect the exact string '">> \o expected_output
    \o <<"' to be printed to the UART. ", "Please fix the logic.">>

\* build_output_mismatch_full_source_prompt.
build_output_mismatch_full_source_prompt(expected_output, run_output) ==
  <<"The code compiled successfully and completed, but the expected output was not found.\n",
    "Output:\n">> \o run_output
    \o <<"\n\n", "We expect the exact string '">> \o expected_output
    \o <<"' to be printed to the UART. ",
         "Please fix the logic and return ONLY the corrected assembly/C code.">>

\* The test of an edit/source mismatch that looks for the first token only.
MismatchOnlyNotFound(edit_apply_error) ==
  Contains(edit_apply_error, <<"not found in current source">>)

\* The test of an edit/source mismatch that finds none.
MismatchNever(edit_apply_error) == FALSE

\* any(token in edit_apply_error for token in ("not found in current
\* source", "matched", "out of range")).
source_mismatch(edit_apply_error) ==
  \E token \in {<<"not found in current source">>, <<"matched">>, <<"out of range">>} :
    Contains(edit_apply_error, token)

\* ValueError of decide_next_retry: the field that is required, or the
\* outcome that is not supported.
MissingContext(field) == Raise(Err("ValueError", 0, field))

\* not value, for a string or None.
Falsy(value) == value = None \/ value = <<>>

\* decide_next_retry; a is the record of its keyword arguments.
decide_next_retry(a) ==
  CASE a.outcome = "edit_apply_failed" ->
         IF Falsy(a.edit_apply_error) THEN MissingContext("edit_apply_error")
         ELSE LET edit_apply_issue ==
                    build_edit_apply_issue_prompt(a.edit_apply_error, a.last_attempt_feedback)
              IN IF source_mismatch(a.edit_apply_error)
                 THEN IF a.incremental /\ a.incremental_strict
                      THEN RetryDecision(
                             build_edit_retry_prompt(
                               a.current_source,
                               edit_apply_issue
                                 \o <<"Strict incremental mode is enabled",
                                      ". Stay in JSON edits mode and ",
                                      "provide corrected, unambiguous edit instructions for the current source.">>),
                             "edits",
                             <<"Strict incremental mode",
                               ": keeping next retry in edits mode despite ",
                               "edit/source mismatch", ".">>)
                      ELSE RetryDecision(
                             build_edit_apply_fallback_full_source_prompt(
                               a.current_source, edit_apply_issue),
                             "full_source",
                             <<"Switching next retry to full source mode due to ",
                               "edit/source mismatch", ".">>)
                 ELSE RetryDecision(
                        build_edit_retry_prompt(
                          a.current_source,
                          edit_apply_issue
                            \o <<"Return valid JSON edit instructions against the current agent_code.s.">>),
                        "edits", None)
    [] a.outcome = "source_validation_failed" ->
         IF Falsy(a.validation_error) THEN MissingContext("validation_error")
         ELSE IF a.current_mode = "edits"
              THEN RetryDecision(
                     build_edit_retry_prompt(
                       a.current_source, build_source_validation_issue_prompt(a.validation_error)),
                     "edits", None)
              ELSE RetryDecision(
                     build_source_validation_issue_prompt(a.validation_error), "full_source", None)
    [] a.outcome = "compile_failed" ->
         IF Falsy(a.compile_error) THEN MissingContext("compile_error")
         ELSE IF a.incremental
              THEN RetryDecision(
                     build_edit_retry_prompt(
                       a.current_source, build_compile_failure_edit_issue(a.compile_error)),
                     "edits", None)
              ELSE RetryDecision(
                     build_compile_failure_full_source_prompt(a.compile_error), "full_source", None)
    [] a.outcome = "verification_failed" ->
         IF a.verification_error = None THEN MissingContext("verification_error")
         ELSE IF a.incremental
              THEN RetryDecision(
                     build_edit_retry_prompt(
                       a.current_source,
                       build_verification_failure_issue(
                         a.verification_stage, a.verification_error, a.verification_timed_out)),
                     "edits", None)
              ELSE RetryDecision(
                     build_verification_failure_full_source_prompt(
                       a.verification_stage, a.verification_error, a.verification_timed_out),
                     "full_source", None)
    [] a.outcome = "run_timed_out" ->
         IF a.run_output = None THEN MissingContext("run_output")
         ELSE IF a.incremental
              THEN RetryDecision(
                     build_edit_retry_prompt(
                       a.current_source, build_timeout_edit_issue(a.board_name, a.run_output)),
                     "edits", None)
              ELSE RetryDecision(
                     build_timeout_full_source_prompt(a.board_name, a.run_output),
                     "full_source", None)
    [] a.outcome \in {"run_output_mismatch", "run_failed"} ->
         IF a.run_output = None THEN MissingContext("run_output")
         ELSE IF a.incremental
              THEN RetryDecision(
                     build_edit_retry_prompt(
                       a.current_source,
                       build_output_mismatch_edit_issue(a.expected_output, a.run_output)),
                     "edits", None)
              ELSE RetryDecision(
                     build_output_mismatch_full_source_prompt(a.expected_output, a.run_output),
                     "full_source", None)
    [] OTHER -> MissingContext("outcome")

\* ---- the calls of decide_next_retry

\* The outcomes of RetryOutcome, and a string that is none of them.
RetryOutcomes ==
  {"edit_apply_failed", "source_validation_failed", "compile_failed", "verification_failed",
   "run_timed_out", "run_output_mismatch", "run_failed", "success"}

\* The exceptions an attempt to apply a response ends with: a snippet or an
\* anchor that is not found, that is found twice, an occurrence beyond the
\* matches; and the others.
ApplyFailures ==
  {[Err(k, i, f) EXCEPT !.n = 2] :
     k \in {"SnippetNotFound", "AmbiguousSnippet", "OccurrenceOutOfRange"},
     i \in {1, 2}, f \in {"old", "anchor"}}
  \cup {Err(k, 1, "path") :
          k \in {"TargetFileNotFound", "AlreadyExists", "PathEscape", "FieldNotString",
                 "UnsupportedOperation"}}
  \cup {Err("NotJson", 0, "")}

\* The file, or the op, a message names.
Names == {"c", "matched"}

\* A detail of an attempt: absent, empty, or a text.
Details == {None, <<>>, <<"detail">>}

\* decide_next_retry is about to be called.  The detail of the outcome takes
\* every value; the details of the other outcomes are all absent or all
\* given.
InitRetry ==
  /\ WsIdle
  /\ ret = NotCalled
  /\ \E outcome \in RetryOutcomes, current_mode \in {"full_source", "edits"},
        incremental \in BOOLEAN, incremental_strict \in BOOLEAN,
        current_source \in {<<>>, <<"source">>},
        last_attempt_feedback \in {<<>>, <<"feedback">>},
        own \in Details, others \in {None, <<"detail">>},
        raised \in ApplyFailures \cup {NoErr}, name \in Names,
        stage_timed_out \in {<<None, FALSE>>, <<(<<"build">>), TRUE>>} :
       /\ outcome # "edit_apply_failed" => raised = NoErr /\ name = "c"
       /\ outcome = "edit_apply_failed" => own = None
       /\ raised = NoErr => name = "c"
       /\ outcome # "verification_failed" => stage_timed_out = <<None, FALSE>>
       /\ call = [fn |-> "decide_next_retry",
                  outcome |-> outcome,
                  current_mode |-> current_mode,
                  incremental |-> incremental,
                  incremental_strict |-> incremental_strict,
                  current_source |-> current_source,
                  expected_output |-> <<"expected">>,
                  board_name |-> <<"board">>,
                  compile_error |-> IF outcome = "compile_failed" THEN own ELSE others,
                  verification_error |-> IF outcome = "verification_failed" THEN own ELSE others,
                  verification_stage |-> stage_timed_out[1],
                  verification_timed_out |-> stage_timed_out[2],
                  run_output |-> IF outcome \in {"run_timed_out", "run_output_mismatch", "run_failed"}
                                 THEN own ELSE others,
                  validation_error |-> IF outcome = "source_validation_failed" THEN own ELSE others,
                  edit_apply_error |-> IF outcome # "edit_apply_failed" THEN others
                                       ELSE IF raised = NoErr THEN others
                                       ELSE Message(raised, name),
                  last_attempt_feedback |-> last_attempt_feedback,
                  raised |-> raised]

\* decide_next_retry(**call) returns a decision or raises.
CallDecideNextRetry ==
  /\ call.fn = "decide_next_retry"
  /\ ret = NotCalled
  /\ ret' = decide_next_retry(call)
  /\ UNCHANGED <<call, wsVars>>

NextRetry == CallDecideNextRetry

SpecRetry == InitRetry /\ [][NextRetry]_vars

\* The error of the call tells of a snippet or an anchor that is not found,
\* ambiguous, or of an occurrence out of range.
MismatchIndicated ==
  /\ call.fn = "decide_next_retry"
  /\ call.outcome = "edit_apply_failed"
  /\ call.raised.kind \in {"SnippetNotFound", "AmbiguousSnippet", "OccurrenceOutOfRange"}

\* C19 as stated: for edit_apply_failed with an error of a snippet or anchor
\* not found, ambiguous or out of range, and strict enabled, the next mode is
\* edits and the prompt says that strict incremental mode is enabled, for
\* every value of the other inputs.
C19_Original ==
  (ret # NotCalled /\ MismatchIndicated /\ call.incremental_strict)
    => /\ ret.ok
       /\ ret.val.next_mode = "edits"
       /\ Contains(ret.val.next_prompt, <<"Strict incremental mode is enabled">>)

\* C19: for edit_apply_failed with an error of a snippet or anchor not found,
\* ambiguous or out of range, when incremental and strict are both enabled
\* the next mode is edits, the prompt says that strict incremental mode is
\* enabled and asks for JSON, and the note tells of strict incremental mode,
\* for every value of the other inputs; with strict enabled and incremental
\* disabled the next mode is full_source.
C19_StrictStaysInEdits ==
  (ret # NotCalled /\ MismatchIndicated /\ call.incremental_strict)
    => /\ ret.ok
       /\ call.incremental =>
            /\ ret.val.next_mode = "edits"
            /\ Contains(ret.val.next_prompt, <<"Strict incremental mode is enabled">>)
            /\ Contains(ret.val.next_prompt, <<"Return ONLY JSON">>)
            /\ Contains(ret.val.next_prompt, call.edit_apply_error)
            /\ Contains(ret.val.note, <<"Strict incremental mode">>)
       /\ ~call.incremental => ret.val.next_mode = "full_source"

\* An ambiguous anchor with incremental and strict enabled, while the current
\* mode is full_source: the decision keeps the next retry in edits mode.
C19_Witness ==
  /\ ret.ok
  /\ MismatchIndicated
  /\ call.raised.kind = "AmbiguousSnippet"
  /\ call.raised.field = "anchor"
  /\ call.incremental /\ call.incremental_strict
  /\ call.current_mode = "full_source"
  /\ ret.val.next_mode = "edits"

\* C20: for edit_apply_failed with an error of a snippet or anchor not found,
\* ambiguous or out of range, and strict disabled, the next mode is
\* full_source, the note tells of the switch to full source mode, and the
\* prompt says not to return JSON edits and holds the whole current source
\* between the lines that open and close it.
C20_FallbackToFullSource ==
  (ret # NotCalled /\ MismatchIndicated /\ ~call.incremental_strict)
    => /\ ret.ok
       /\ ret.val.next_mode = "full_source"
       /\ ret.val.note # None
       /\ Contains(ret.val.note, <<"Switching next retry to full source mode due to ">>)
       /\ Contains(ret.val.next_prompt, <<"do NOT return JSON edits">>)
       /\ Contains(ret.val.next_prompt,
                   <<"Current agent_code.s:\nassembly\n">> \o call.current_source
                     \o <<"\n\n">>)

\* An occurrence out of range with incremental enabled and strict disabled,
\* and a source that is not empty: the decision switches to full_source.
C20_Witness ==
  /\ ret.ok
  /\ MismatchIndicated
  /\ call.raised.kind = "OccurrenceOutOfRange"
  /\ call.incremental /\ ~call.incremental_strict
  /\ call.current_source # <<>>
  /\ ret.val.next_mode = "full_source"
  /\ ret.val.note # None

\* C21: for edit_apply_failed with any other apply error (malformed JSON, a
\* path that escapes, a field that is no string, a file that exists already,
\* a target file not found, an unsupported op) the next mode is edits and no
\* note is emitted, whatever incremental, strict and current_mode are and
\* whatever path, file name or op the message ends with.
C21_OtherApplyErrorStaysInEdits ==
  (ret # NotCalled /\ call.fn = "decide_next_retry" /\ call.outcome = "edit_apply_failed"
     /\ call.raised # NoErr /\ ~MismatchIndicated)
    => /\ ret.ok
       /\ ret.val.next_mode = "edits"
       /\ ret.val.note = None

\* The outcomes decide_next_retry knows besides edit_apply_failed and
\* source_validation_failed.
BuildOutcomes ==
  {"compile_failed", "verification_failed", "run_timed_out", "run_output_mismatch", "run_failed"}

\* The name of the keyword argument that holds the detail of the outcome.
DetailField(outcome) ==
  CASE outcome = "edit_apply_failed" -> "edit_apply_error"
    [] outcome = "source_validation_failed" -> "validation_error"
    [] outcome = "compile_failed" -> "compile_error"
    [] outcome = "verification_failed" -> "verification_error"
    [] outcome \in {"run_timed_out", "run_output_mismatch", "run_failed"} -> "run_output"
    [] OTHER -> "outcome"

\* The detail of the outcome of the call, None when absent.
Detail == call[DetailField(call.outcome)]

\* C22: for source_validation_failed with its validation error given, the
\* next mode is current_mode, for both modes and every value of incremental
\* and strict, the prompt holds the validation error, and no note is emitted.
C22_ValidationKeepsMode ==
  (ret # NotCalled /\ call.fn = "decide_next_retry"
     /\ call.outcome = "source_validation_failed" /\ ~Falsy(call.validation_error))
    => /\ ret.ok
       /\ ret.val.next_mode = call.current_mode
       /\ Contains(ret.val.next_prompt, <<"Validation error: ">> \o call.validation_error)
       /\ ret.val.note = None

\* A validation failure in edits mode with incremental disabled and strict
\* enabled: the next mode is still edits.
C22_Witness ==
  /\ ret.ok
  /\ call.fn = "decide_next_retry"
  /\ call.outcome = "source_validation_failed"
  /\ call.current_mode = "edits"
  /\ ~call.incremental /\ call.incremental_strict
  /\ ret.val.next_mode = "edits"

\* C23: for compile_failed, verification_failed, run_timed_out,
\* run_output_mismatch and run_failed, whenever a decision is returned the
\* next mode is edits exactly when incremental is enabled and full_source
\* otherwise, whatever current_mode and strict are, and no note is emitted;
\* a decision is returned whenever the detail of the outcome is not empty.
C23_BuildOutcomesFollowIncremental ==
  (ret # NotCalled /\ call.fn = "decide_next_retry" /\ call.outcome \in BuildOutcomes)
    => /\ ~Falsy(Detail) => ret.ok
       /\ ret.ok =>
            /\ ret.val.next_mode = (IF call.incremental THEN "edits" ELSE "full_source")
            /\ ret.val.note = None

\* A run failure in edits mode with strict enabled and incremental disabled:
\* the next mode is full_source.
C23_Witness ==
  /\ ret.ok
  /\ call.fn = "decide_next_retry"
  /\ call.outcome = "run_failed"
  /\ call.current_mode = "edits"
  /\ ~call.incremental /\ call.incremental_strict
  /\ ret.val.next_mode = "full_source"

\* C24: decide_next_retry raises for an outcome outside the closed set; for
\* an outcome of the set it raises, naming the field, when the detail of the
\* outcome is absent, and returns a decision when it is supplied, whatever
\* the details of the other outcomes are.
C24_MissingContext ==
  (ret # NotCalled /\ call.fn = "decide_next_retry")
    => /\ DetailField(call.outcome) = "outcome" =>
            ~ret.ok /\ ret.err = Err("ValueError", 0, "outcome")
       /\ DetailField(call.outcome) # "outcome" =>
            /\ Detail = None => ~ret.ok /\ ret.err = Err("ValueError", 0, DetailField(call.outcome))
            /\ Detail # None => ret.ok

\* C25: the prompt of every decision holds the detail of its outcome; that
\* of every decision whose next mode is edits, and that of the fallback to
\* full source after an edit-apply failure, holds the whole current source
\* inside its block; that of run_output_mismatch (and of run_failed) holds
\* the expected output.
C25_NoInformationLost ==
  (ret # NotCalled /\ call.fn = "decide_next_retry" /\ ret.ok)
    => /\ Contains(ret.val.next_prompt, Detail)
       /\ (ret.val.next_mode = "edits" \/ call.outcome = "edit_apply_failed") =>
            Contains(ret.val.next_prompt,
                     <<"Current agent_code.s:\nassembly\n">> \o call.current_source
                       \o <<"\n\n">>)
       /\ call.outcome \in {"run_output_mismatch", "run_failed"} =>
            Contains(ret.val.next_prompt,
                     <<"We expect the exact string '">> \o call.expected_output
                       \o <<"' to be printed to the UART. ">>)

\* An output mismatch with incremental enabled and a source that is not
\* empty: the decision asks for edits.
C25_Witness ==
  /\ ret.ok
  /\ call.fn = "decide_next_retry"
  /\ call.outcome = "run_output_mismatch"
  /\ call.incremental
  /\ call.current_source # <<>>
  /\ call.run_output = <<"detail">>
  /\ ret.val.next_mode = "edits"

\* ------------------------------------------ the validation of a full source
\*
\* A source text is a sequence of symbols: the line feed "\n", the space, the
\* characters . : # @ , and the backtick (written BACKTICK), "//", and words
\* (a maximal run of letters, digits and underscores taken as one symbol).

MaxLines == 2

MaxLineLen == 3

\* The words that start with a letter, and those made of digits.
LetterWords ==
  {"mov", "r0", "loop", "text", "define", "Here", "is", "Please", "Info", "Note"}

DigitWords == {"1"}

\* str.lower() of a word.
lower(word) ==
  CASE word = "Here" -> "here"
    [] word = "Please" -> "please"
    [] word = "Info" -> "info"
    [] word = "Note" -> "note"
    [] OTHER -> word

\* str.splitlines(): the lines of the text, without their line feeds; a line
\* feed at the end of the text opens no further line.
RECURSIVE splitlines(_)
splitlines(text) ==
  LET feeds == {i \in 1..Len(text) : text[i] = "\n"}
      first == CHOOSE i \in feeds : \A j \in feeds : i <= j
  IN IF text = <<>> THEN <<>>
     ELSE IF feeds = {} THEN <<text>>
     ELSE <<SubSeq(text, 1, first - 1)>> \o splitlines(SubSeq(text, first + 1, Len(text)))

\* The text without its leading white space: what ^\s* of a pattern skips.
RECURSIVE lstrip(_)
lstrip(s) == IF s # <<>> /\ s[1] = " " THEN lstrip(Tail(s)) ELSE s

\* str.startswith.
startswith(s, prefix) == IsPrefix(prefix, s)

\* reject_prefixes.
reject_prefixes ==
  {<<"ClearcutLogger", ":">>, <<"Info", ":">>, <<"Warning", ":">>, <<"Error", ":">>,
   <<"I", " ", "will", " ">>, <<"I", "'", "ll", " ">>, <<"Let", " ", "me", " ">>,
   <<"Here", " ", "is", " ">>, <<"BACKTICK", "BACKTICK", "BACKTICK">>,
   <<"#", " ">>, <<"#", "#">>}

\* The prefixes of a comment: ("@", ";", "//", "/*", "*", "*/").
comment_prefixes == {<<"@">>, <<";">>, <<"//">>, <<"/*">>, <<"*">>, <<"*/">>}

\* The length of the longest prefix of s whose symbols are all in the class.
RECURSIVE run_length(_, _)
run_length(s, class) ==
  IF s # <<>> /\ s[1] \in class THEN 1 + run_length(Tail(s), class) ELSE 0

\* preproc_re.match: # and a keyword of the preprocessor, the keyword ending
\* at a word boundary.
preproc_re(line) ==
  LET s == lstrip(line)
  IN /\ Len(s) >= 2
     /\ s[1] = "#"
     /\ s[2] \in {"include", "define", "if", "ifdef", "ifndef", "elif", "else", "endif",
                  "pragma", "error", "warning"}

\* directive_re.match: a dot and a name that starts with a letter.
directive_re(line) ==
  LET s == lstrip(line)
  IN Len(s) >= 2 /\ s[1] = "." /\ s[2] \in LetterWords

\* The number of symbols of the label the line starts with, its colon
\* included, 0 when it starts with none: a name of letters, digits, dots that
\* does not start with a digit, or a number, and then the colon.
label_length(s) ==
  LET n == run_length(s, LetterWords \cup DigitWords \cup {"."})
  IN IF /\ n >= 1
        /\ Len(s) > n
        /\ s[n + 1] = ":"
        /\ \/ s[1] \in LetterWords \cup {"."}
           \/ \A i \in 1..n : s[i] \in DigitWords
     THEN n + 1
     ELSE 0

\* label_prefix_re.match.
label_prefix_re(line) == label_length(lstrip(line)) > 0

\* group(1) of label_prefix_re: what follows the label and white space.
label_tail(line) ==
  lstrip(SubSeq(lstrip(line), label_length(lstrip(line)) + 1, Len(lstrip(line))))

\* label_only_re.match: a label and nothing more than a comment of @ or ;.
label_only_re(line) ==
  /\ label_prefix_re(line)
  /\ label_tail(line) = <<>> \/ label_tail(line)[1] \in {"@", ";"}

\* instr_re.match: a name that starts with a letter, of letters, digits,
\* underscores and dots, that ends at a word boundary, and then nothing or
\* white space and anything.
instr_re(line) ==
  LET s == lstrip(line)
      n == run_length(s, LetterWords \cup DigitWords \cup {"."})
  IN /\ n >= 1
     /\ s[1] \in LetterWords
     /\ s[n] # "."
     /\ n = Len(s) \/ s[n + 1] = " "

\* What the body of the loop of validate_arm_asm_source_text makes of a line
\* once the tests of the prefixes and of the backtick are passed: the kind of
\* the line, and for a rejected line the text the error shows.
classify_unmarked(line) ==
  LET stripped == strip(line)
      tail == strip(label_tail(line))
      seen(kind) == [kind |-> kind, text |-> stripped]
  IN CASE \E prefix \in comment_prefixes : startswith(stripped, prefix) -> seen("comment")
       [] stripped[1] \notin {"@", ";", "//", "/*", "*", "*/"} /\ preproc_re(line) -> seen("preproc")
       [] stripped[1] \notin {"@", ";", "//", "/*", "*", "*/"} /\ ~preproc_re(line)
            /\ directive_re(line) -> seen("directive")
       [] stripped[1] \notin {"@", ";", "//", "/*", "*", "*/"} /\ ~preproc_re(line)
            /\ ~directive_re(line) /\ label_prefix_re(line) ->
            IF \/ label_only_re(line)
               \/ tail = <<>>
               \/ \E prefix \in comment_prefixes : startswith(tail, prefix)
            THEN seen("label")
            ELSE IF preproc_re(tail) \/ directive_re(tail) \/ instr_re(tail)
            THEN seen("label")
            ELSE [kind |-> "invalid after label", text |-> tail]
       [] stripped[1] \notin {"@", ";", "//", "/*", "*", "*/"} /\ ~preproc_re(line)
            /\ ~directive_re(line) /\ ~label_prefix_re(line) /\ instr_re(line) ->
            IF /\ (Len(stripped) = 1 \/ stripped[2] = " ")
               /\ lower(stripped[1]) \in {"i", "here", "please", "note", "first", "then"}
            THEN seen("prose")
            ELSE seen("instruction")
       [] OTHER -> seen("not recognized")

\* The tests of a comment before those of the markers.
ClassifyCommentFirst(raw_line) ==
  LET stripped == strip(raw_line)
  IN IF stripped = <<>> THEN [kind |-> "blank", text |-> stripped]
     ELSE IF \E prefix \in comment_prefixes : startswith(stripped, prefix)
     THEN [kind |-> "comment", text |-> stripped]
     ELSE IF \E prefix \in reject_prefixes : startswith(stripped, prefix)
     THEN [kind |-> "prose or log", text |-> stripped]
     ELSE IF \E i \in 1..Len(stripped) : stripped[i] = "BACKTICK"
     THEN [kind |-> "backticks", text |-> stripped]
     ELSE classify_unmarked(raw_line)

\* The body of the loop of validate_arm_asm_source_text for one line.
classify(raw_line) ==
  LET stripped == strip(raw_line)
  IN IF stripped = <<>> THEN [kind |-> "blank", text |-> stripped]
     ELSE IF \E prefix \in reject_prefixes : startswith(stripped, prefix)
     THEN [kind |-> "prose or log", text |-> stripped]
     ELSE IF \E i \in 1..Len(stripped) : stripped[i] = "BACKTICK"
     THEN [kind |-> "backticks", text |-> stripped]
     ELSE classify_unmarked(raw_line)

\* The kinds of line that set saw_asm_like, and those the loop passes.
AsmLike == {"preproc", "directive", "label", "instruction"}

Passed == AsmLike \cup {"blank", "comment"}

\* What validate_arm_asm_source_text returns: None, or an error string with
\* its kind, the number of its line (0 when it names none) and the text it
\* shows.
NoValidationError == [kind |-> "none", lineno |-> 0, text |-> <<>>]

ValidationError(kind, lineno, text) == [kind |-> kind, lineno |-> lineno, text |-> text]

\* The loop that does not ask for an assembly-like line.
RECURSIVE ValidateFromAnyLine(_, _, _)
ValidateFromAnyLine(lines, lineno, saw_asm_like) ==
  IF lineno > Len(lines) THEN NoValidationError
  ELSE IF classify(lines[lineno]).kind \notin Passed
  THEN ValidationError(classify(lines[lineno]).kind, lineno, classify(lines[lineno]).text)
  ELSE ValidateFromAnyLine(lines, lineno + 1,
                           saw_asm_like \/ classify(lines[lineno]).kind \in AsmLike)

\* The loop of validate_arm_asm_source_text from the line lineno on, and
\* what follows the loop.
RECURSIVE validate_from(_, _, _)
validate_from(lines, lineno, saw_asm_like) ==
  IF lineno > Len(lines)
  THEN IF ~saw_asm_like THEN ValidationError("no assembly", 0, <<>>) ELSE NoValidationError
  ELSE IF classify(lines[lineno]).kind \notin Passed
  THEN ValidationError(classify(lines[lineno]).kind, lineno, classify(lines[lineno]).text)
  ELSE validate_from(lines, lineno + 1,
                     saw_asm_like \/ classify(lines[lineno]).kind \in AsmLike)

\* validate_arm_asm_source_text.
validate_arm_asm_source_text(source_text) == validate_from(splitlines(source_text), 1, FALSE)

\* ---- the source texts

\* The symbols of the lines that are enumerated.
LineSymbols == {" ", "mov", "1", ".", ":", "#", "@", ",", "BACKTICK", "Here"}

\* A line as it is read: no two words next to each other.
Canonical(line) ==
  \A i \in 1..(Len(line) - 1) :
    ~(line[i] \in LetterWords \cup DigitWords /\ line[i + 1] \in LetterWords \cup DigitWords)

\* Every line of at most MaxLineLen symbols.
ShortLines ==
  {line \in UNION {[1..k -> LineSymbols] : k \in 0..MaxLineLen} : Canonical(line)}

\* Lines of every kind: blank; comments; a directive; a preprocessor line;
\* labels, alone, with a comment, with an instruction, with something else;
\* instructions; prose; a log line; a fence; lines that would be a comment,
\* a label, an instruction but for a marker.
SampleLines ==
  {<<>>, <<" ">>,
   <<"@", " ", "mov">>, <<"//", "Here">>,
   <<".", "text">>,
   <<"#", "define", " ", "r0">>,
   <<"loop", ":">>, <<"1", ":", " ", "@">>, <<"loop", ":", " ", "mov", " ", "r0">>,
   <<"loop", ":", " ", ",">>,
   <<" ", "mov", " ", "r0", ",", " ", "#", "1">>,
   <<"Please", " ", "mov">>, <<"Note", ":", " ", "mov">>,
   <<"Here", " ", "is", " ", "mov">>,
   <<"Info", ":", " ", "mov">>,
   <<"BACKTICK", "BACKTICK", "BACKTICK">>,
   <<"@", " ", "BACKTICK">>, <<"loop", ":", "BACKTICK">>, <<"mov", " ", "BACKTICK", "r0", "BACKTICK">>,
   <<"#", " ", "mov">>,
   <<"mov", ",">>}

\* The lines joined by line feeds.
RECURSIVE JoinLines(_)
JoinLines(lines) ==
  IF lines = <<>> THEN <<>>
  ELSE IF Len(lines) = 1 THEN lines[1]
  ELSE lines[1] \o <<"\n">> \o JoinLines(Tail(lines))

\* The source texts: one short line, or up to MaxLines sample lines, with or
\* without a line feed at the end.
SourceTexts ==
  LET bodies == {JoinLines(<<line>>) : line \in ShortLines}
                \cup {JoinLines(lines) :
                        lines \in UNION {[1..k -> SampleLines] : k \in 0..MaxLines}}
  IN bodies \cup {body \o <<"\n">> : body \in bodies}

\* validate_arm_asm_source_text is about to be called.
InitValidate ==
  /\ WsIdle
  /\ call \in [fn : {"validate_arm_asm_source_text"}, source_text : SourceTexts]
  /\ ret = NotCalled

\* validate_arm_asm_source_text(source_text) returns.
CallValidateArmAsmSourceText ==
  /\ call.fn = "validate_arm_asm_source_text"
  /\ ret = NotCalled
  /\ ret' = Ok(validate_arm_asm_source_text(call.source_text))
  /\ UNCHANGED <<call, wsVars>>

NextValidate == CallValidateArmAsmSourceText

SpecValidate == InitValidate /\ [][NextValidate]_vars

\* The lines of the text of the call, and the kind of each.
Lines == splitlines(call.source_text)

KindOf(k) == classify(Lines[k]).kind

\* The lines that are not passed, and the first of them.
Offending == {k \in 1..Len(Lines) : KindOf(k) \notin Passed}

FirstOffending == CHOOSE k \in Offending : \A j \in Offending : k <= j

\* C26 as stated: no error exactly when every non-blank line is a comment, a
\* directive, a label or an instruction and there is at least one such line;
\* when a line offends, the error has the number of the first offending line
\* and its text.
C26_Original ==
  (ret # NotCalled /\ call.fn = "validate_arm_asm_source_text")
    => /\ ret.val = NoValidationError
            <=> /\ Offending = {}
                /\ \E k \in 1..Len(Lines) : KindOf(k) \in AsmLike \cup {"comment"}
       /\ Offending # {} =>
            /\ ret.val.lineno = FirstOffending
            /\ ret.val.text = strip(Lines[FirstOffending])

\* C26: validate_arm_asm_source_text returns no error exactly when every
\* non-blank line is a comment, a preprocessor line, a directive, a label or
\* an instruction and at least one line is not a comment; when a line
\* offends, the error has the 1-based number of the first such line and its
\* stripped text (for a label followed by invalid code, the text after the
\* label); when none offends but no line is more than a comment, the error
\* names no line.
C26_ValidatesEveryLine ==
  (ret # NotCalled /\ call.fn = "validate_arm_asm_source_text")
    => /\ ret.val = NoValidationError
            <=> /\ Offending = {}
                /\ \E k \in 1..Len(Lines) : KindOf(k) \in AsmLike
       /\ Offending # {} =>
            /\ ret.val.lineno = FirstOffending
            /\ ret.val.kind = KindOf(FirstOffending)
            /\ ret.val.text = IF KindOf(FirstOffending) = "invalid after label"
                              THEN strip(label_tail(Lines[FirstOffending]))
                              ELSE strip(Lines[FirstOffending])
       /\ (Offending = {} /\ ~\E k \in 1..Len(Lines) : KindOf(k) \in AsmLike) =>
            ret.val = ValidationError("no assembly", 0, <<>>)

\* A text of two lines, an instruction and then a line that is not
\* recognized: the error names line 2.
C26_Witness ==
  /\ ret # NotCalled
  /\ call.fn = "validate_arm_asm_source_text"
  /\ Len(Lines) = 2
  /\ KindOf(1) = "instruction"
  /\ ret.val.kind = "not recognized"
  /\ ret.val.lineno = 2

\* The line holds a forbidden marker: it starts with a prefix of a log line,
\* of narration, of a fence or of a heading, or holds a backtick.
Marked(line) ==
  \/ \E prefix \in reject_prefixes : startswith(strip(line), prefix)
  \/ \E i \in 1..Len(line) : line[i] = "BACKTICK"

\* C27: a text with a line that holds a forbidden marker is rejected,
\* whatever the line would be without the test of the markers (a comment, a
\* label, an instruction included): the error names that line, as prose or
\* log output or as backticks, unless an earlier line offends.
C27_MarkedLineRejected ==
  (ret # NotCalled /\ call.fn = "validate_arm_asm_source_text")
    => \A k \in 1..Len(Lines) :
         Marked(Lines[k]) =>
           /\ ret.val # NoValidationError
           /\ k \in Offending
           /\ ret.val.lineno = FirstOffending
           /\ FirstOffending = k => ret.val.kind \in {"prose or log", "backticks"}

\* After a directive, a line that would be a comment but holds a backtick:
\* the error names it.
C27_Witness ==
  /\ ret # NotCalled
  /\ call.fn = "validate_arm_asm_source_text"
  /\ Len(Lines) = 2
  /\ KindOf(1) = "directive"
  /\ Marked(Lines[2])
  /\ classify_unmarked(Lines[2]).kind = "comment"
  /\ ret.val = ValidationError("backticks", 2, strip(Lines[2]))

\* ---------------------------------------------------------- run_agent_loop

\* The largest max_retries of a configuration.
MaxRetries == 2

\* config.entry_file_rel, and config.source_file, the same file in
\* config.code_dir.
entry_file_rel == <<"c">>

source_file == JoinAbs(entry_file_rel)

\* config.initial_prompt, config.expected_output and config.board_name.
initial_prompt == <<"initial prompt">>

config_expected_output == <<"expected">>

config_board_name == <<"board">>

\* The string validate_arm_asm_source_text returns, None when the source
\* passes.
validation_message(v) ==
  LET line == <<"Line ", ToString(v.lineno)>>
  IN CASE v.kind = "none" -> None
       [] v.kind = "prose or log" ->
            line \o <<" looks like prose/log output, not assembly: ">> \o v.text
       [] v.kind = "backticks" ->
            line \o <<" contains markdown/backticks, not assembly: ">> \o v.text
       [] v.kind = "invalid after label" ->
            line \o <<" has a valid label but invalid code after ':': ">> \o v.text
       [] v.kind = "prose" -> line \o <<" looks like prose, not assembly: ">> \o v.text
       [] v.kind = "not recognized" ->
            line \o <<" is not recognized as ARM assembly syntax: ">> \o v.text
       [] OTHER ->
            <<"No assembly-like directives, labels, or instructions found in generated source">>

\* The response mode chosen without looking at config.incremental.
InitialModeIgnoresIncremental(incremental, current_source, repo_mode) ==
  IF current_source # <<>> \/ repo_mode THEN "edits" ELSE "full_source"

\* Lines 20, 29-31: the response mode the loop starts in.
initial_response_mode(incremental, current_source, repo_mode) ==
  IF incremental /\ (current_source # <<>> \/ repo_mode) THEN "edits" ELSE "full_source"

\* The variables of the transaction other than the disk.
wsLocals ==
  <<default_path, pc, default_rel, file_cache, dirty_paths, idx, pending, result, error,
    workspace0, last_edit, raised_in, targets, writes>>

\* No call of apply_workspace_edit_instructions is in progress.
NoTransaction ==
  /\ default_path' = None
  /\ pc' = "idle"
  /\ default_rel' = None
  /\ file_cache' = EmptyCache
  /\ dirty_paths' = {}
  /\ idx' = 0
  /\ pending' = <<>>
  /\ result' = <<>>
  /\ error' = NoErr
  /\ workspace0' = workspace
  /\ last_edit' = Blank
  /\ raised_in' = "none"
  /\ targets' = {}
  /\ writes' = {}

\* No decision has been taken yet.
NoDecision == [next_prompt |-> <<>>, next_mode |-> "none", note |-> None]

\* The keyword arguments of decide_next_retry that have a default.
DefaultArguments ==
  [incremental_strict |-> FALSE, compile_error |-> None, verification_error |-> None,
   verification_stage |-> None, verification_timed_out |-> FALSE, run_output |-> None,
   validation_error |-> None, edit_apply_error |-> None, last_attempt_feedback |-> <<>>]

\* The keyword arguments every call of decide_next_retry in the loop gives,
\* with the details of the outcome.
Arguments(frame, outcome, details) ==
  details @@ [outcome |-> outcome,
              current_mode |-> frame.response_mode,
              incremental |-> frame.incremental,
              incremental_strict |-> frame.incremental_strict,
              current_source |-> frame.current_source,
              expected_output |-> config_expected_output,
              board_name |-> config_board_name] @@ DefaultArguments

\* One more step of the attempt is done.
Step(frame, name) == [frame EXCEPT !.steps = Append(@, name)]

\* An exception leaves run_agent_loop.
Crash(frame, e) ==
  /\ call' = [frame EXCEPT !.fn = "run_agent_loop", !.at = "crashed"]
  /\ ret' = Raise(e)

\* The failure branch that keeps the prompt and the mode of the attempt.
FailedKeepsPrompt(frame, outcome, details, feedback) ==
  LET arguments == Arguments(frame, outcome, details)
      retry_decision == decide_next_retry(arguments)
  IN IF ~retry_decision.ok
     THEN Crash([frame EXCEPT !.outcome = outcome, !.arguments = arguments,
                              !.last_attempt_feedback = feedback],
                retry_decision.err)
     ELSE /\ call' = [frame EXCEPT !.fn = "run_agent_loop",
                                   !.at = "attempt",
                                   !.outcome = outcome,
                                   !.arguments = arguments,
                                   !.decision = retry_decision.val,
                                   !.last_attempt_feedback = feedback]
          /\ ret' = ret

\* The end of a failed attempt: the attempt_result is recorded,
\* decide_next_retry is called with the details of the outcome, its prompt
\* and its mode are taken over, and the loop continues.  An exception of
\* decide_next_retry is not caught.
Failed(frame, outcome, details, feedback) ==
  LET arguments == Arguments(frame, outcome, details)
      retry_decision == decide_next_retry(arguments)
  IN IF ~retry_decision.ok
     THEN Crash([frame EXCEPT !.outcome = outcome, !.arguments = arguments,
                              !.last_attempt_feedback = feedback],
                retry_decision.err)
     ELSE /\ call' = [frame EXCEPT !.fn = "run_agent_loop",
                                   !.at = "attempt",
                                   !.outcome = outcome,
                                   !.arguments = arguments,
                                   !.decision = retry_decision.val,
                                   !.current_prompt = retry_decision.val.next_prompt,
                                   !.response_mode = retry_decision.val.next_mode,
                                   !.last_attempt_feedback = feedback]
          /\ ret' = ret

\* The success after which the loop goes on.
SucceededContinues(frame) ==
  /\ call' = [frame EXCEPT !.at = "attempt", !.outcome = "success"]
  /\ ret' = ret

\* The attempt succeeded: break, and the function returns.
Succeeded(frame) ==
  /\ call' = [frame EXCEPT !.at = "done", !.outcome = "success"]
  /\ ret' = Ok(None)

\* ---- the inputs of the loop

\* The workspace the loop starts in: without a source file, with an empty
\* one, with a source file.
LoopDisks ==
  {DiskOf(Dir, Absent, Absent, Absent),
   DiskOf(Dir, Absent, Absent, File(<<>>)),
   DiskOf(Dir, Absent, Absent, File(<<"mov">>))}

\* The source a full-source response gives after sanitize_full_source_text
\* and extract_arm_asm_block: none, an instruction, a line that is no
\* assembly.
LoopTexts == {<<>>, <<"mov">>, <<"1">>}

\* The instruction lists parse_edit_instructions gives for the responses:
\* the source replaced by an instruction, by a line that is no assembly, a
\* snippet replaced, the source file deleted, moved, another file created,
\* and a file created under a file created.
LoopEditLists ==
  {<<With(Op("replace_entire_file"), "content", <<"mov">>)>>,
   <<With(Op("replace_entire_file"), "content", <<"1">>)>>,
   <<With(With(Op("replace_snippet"), "old", <<"1">>), "new", <<"mov">>)>>,
   <<Op("delete_file")>>,
   <<With(With(Op("move_file"), "path", <<"c">>), "new_path", <<"a">>)>>,
   <<With(With(Op("create_file"), "path", <<"a">>), "content", <<"mov">>)>>,
   <<With(With(Op("create_file"), "path", <<"a">>), "content", <<"mov">>),
     With(With(Op("create_file"), "path", <<"a", "b">>), "content", <<"mov">>)>>}

\* What parse_edit_instructions does with a response: it raises, or it
\* returns a list.
ParseResults == {Raise(Err("NotJson", 0, ""))} \cup {Ok(edits) : edits \in LoopEditLists}

\* What compile_code returns: success, or the stderr of the compiler, which
\* may be empty.
CompileResults == {<<TRUE, <<>>>>, <<FALSE, <<"detail">>>>, <<FALSE, <<>>>>}

\* config.timeout_sec: its default, and another value.
TimeoutSecs == {2, 5}

\* The timeout that stays as it is.
SameTimeout(current_timeout) == current_timeout

\* Line 282: the timeout of the next run in the simulator.
next_timeout(current_timeout) == current_timeout * 2

\* What run_in_simulator returns: (success, output, timed_out).
SimulatorResults ==
  {<<TRUE, <<"expected">>, FALSE>>, <<TRUE, <<>>, FALSE>>, <<FALSE, <<"detail">>, FALSE>>,
   <<TRUE, <<>>, TRUE>>, <<TRUE, <<"expected">>, TRUE>>}

\* What run_repo_verification returns.
VerifyResults ==
  {[success |-> TRUE, stage |-> <<"test">>, timed_out |-> FALSE,
    output |-> <<"[RepoVerify] ", "test", ": cmd\n">>],
   [success |-> FALSE, stage |-> <<"build">>, timed_out |-> FALSE,
    output |-> <<"[RepoVerify] ", "build", ": cmd\n", "detail">>],
   [success |-> FALSE, stage |-> <<"test">>, timed_out |-> TRUE,
    output |-> <<"[RepoVerify] ", "test", ": cmd\n">>]}

\* run_agent_loop(config) is about to be called.  bootstrap.py sets
\* incremental_strict only together with incremental.
InitLoop ==
  /\ workspace \in LoopDisks
  /\ default_path = None
  /\ pc = "idle"
  /\ default_rel = None
  /\ file_cache = EmptyCache
  /\ dirty_paths = {}
  /\ idx = 0
  /\ pending = <<>>
  /\ result = <<>>
  /\ error = NoErr
  /\ workspace0 = workspace
  /\ last_edit = Blank
  /\ raised_in = "none"
  /\ targets = {}
  /\ writes = {}
  /\ ret = NotCalled
  /\ \E incremental \in BOOLEAN, incremental_strict \in BOOLEAN, repo_mode \in BOOLEAN,
        max_retries \in 1..MaxRetries, timeout_sec \in TimeoutSecs :
       /\ incremental_strict => incremental
       /\ call = [fn |-> "run_agent_loop",
                  at |-> "start",
                  incremental |-> incremental,
                  incremental_strict |-> incremental_strict,
                  repo_mode |-> repo_mode,
                  max_retries |-> max_retries,
                  attempt |-> 0,
                  current_prompt |-> initial_prompt,
                  response_mode |-> "full_source",
                  last_attempt_feedback |-> <<>>,
                  current_source |-> <<>>,
                  generated_code |-> <<>>,
                  edits |-> <<>>,
                  run_success |-> FALSE,
                  run_output |-> <<>>,
                  timed_out |-> FALSE,
                  timeout_sec |-> timeout_sec,
                  current_timeout |-> timeout_sec,
                  runs |-> <<>>,
                  outcome |-> "none",
                  arguments |-> DefaultArguments,
                  decision |-> NoDecision,
                  disk0 |-> workspace,
                  source0 |-> <<>>,
                  steps |-> <<>>]

\* ---- the steps of the loop

\* Lines 19-31: the existing source is loaded and the response mode chosen.
Start ==
  /\ call.fn = "run_agent_loop"
  /\ call.at = "start"
  /\ IF isdir(workspace, source_file)
     THEN Crash(call, Err("OSError", 0, "open"))
     ELSE LET existing == IF exists(workspace, source_file)
                          THEN NodeAt(workspace, source_file).text ELSE <<>>
          IN /\ call' = [call EXCEPT
                           !.at = "attempt",
                           !.current_source = existing,
                           !.response_mode =
                              initial_response_mode(call.incremental, existing, call.repo_mode)]
             /\ ret' = ret
  /\ UNCHANGED wsVars

\* Lines 33-40: the next attempt starts, and the model is called with the
\* current prompt.
CallLlm ==
  /\ call.fn = "run_agent_loop"
  /\ call.at = "attempt"
  /\ call.attempt < call.max_retries
  /\ call' = [call EXCEPT !.at = "response", !.attempt = @ + 1, !.disk0 = workspace,
                          !.source0 = call.current_source,
                          !.outcome = "none", !.steps = <<"call_llm">>, !.runs = <<>>]
  /\ ret' = ret
  /\ UNCHANGED wsVars

\* Lines 41-45 and 96-107: the response is taken in the response mode.  In
\* edits mode it is parsed, and apply_workspace_edit_instructions is called
\* with the list unless parsing raised, which ends the attempt as
\* edit_apply_failed; in full-source mode the response is sanitized and the
\* source extracted.
TakeResponse ==
  /\ call.fn = "run_agent_loop"
  /\ call.at = "response"
  /\ IF call.response_mode = "edits"
     THEN \E parsed \in ParseResults :
            IF ~parsed.ok
            THEN /\ Failed(Step(call, "parse_edit_instructions"), "edit_apply_failed",
                           [edit_apply_error |-> Message(parsed.err, "path"),
                            last_attempt_feedback |-> call.last_attempt_feedback],
                           call.last_attempt_feedback)
                 /\ UNCHANGED wsVars
            ELSE /\ call' = [Step(call, "parse_edit_instructions") EXCEPT
                               !.fn = "apply_workspace_edit_instructions",
                               !.at = "apply",
                               !.edits = parsed.val]
                 /\ ret' = ret
                 /\ default_path' = entry_file_rel
                 /\ pc' = "begin"
                 /\ workspace0' = workspace
                 /\ UNCHANGED <<workspace, default_rel, file_cache, dirty_paths, idx, pending,
                                result, error, last_edit, raised_in, targets, writes>>
     ELSE \E text \in LoopTexts :
            /\ call' = [Step(call, "sanitize_full_source_text") EXCEPT
                          !.at = "validate", !.generated_code = text]
            /\ ret' = ret
            /\ UNCHANGED wsVars

\* Lines 46-95: apply_workspace_edit_instructions has returned or raised.  A
\* ValueError ends the attempt as edit_apply_failed, and so does a source
\* file that is gone; any other exception is not caught.  Otherwise the
\* source is read back from the file.
AfterApply ==
  /\ call.fn = "apply_workspace_edit_instructions"
  /\ call.at = "apply"
  /\ pc \in {"returned", "raised"}
  /\ LET frame == Step(call, "apply_workspace_edit_instructions")
         details(error_text) == [edit_apply_error |-> error_text,
                                 last_attempt_feedback |-> call.last_attempt_feedback]
     IN IF pc = "raised"
        THEN IF error.kind = "OSError"
             THEN Crash(frame, error)
             ELSE Failed(frame, "edit_apply_failed", details(Message(error, "path")),
                         call.last_attempt_feedback)
        ELSE IF ~exists(workspace, source_file)
        THEN Failed(frame, "edit_apply_failed",
                    details(<<"Incremental edits removed required source file '", "c", "'">>),
                    call.last_attempt_feedback)
        ELSE IF isdir(workspace, source_file)
        THEN Crash(frame, Err("OSError", 0, "open"))
        ELSE /\ call' = [frame EXCEPT !.fn = "run_agent_loop",
                                      !.at = "validate",
                                      !.generated_code = NodeAt(workspace, source_file).text]
             /\ ret' = ret
  /\ NoTransaction
  /\ UNCHANGED workspace

\* Lines 109-144: outside repo mode the source is validated; a source that
\* is rejected ends the attempt as source_validation_failed.
Validate ==
  /\ call.fn = "run_agent_loop"
  /\ call.at = "validate"
  /\ LET source_validation_error ==
           IF call.repo_mode THEN None
           ELSE validation_message(validate_arm_asm_source_text(call.generated_code))
         frame == IF call.repo_mode THEN call
                  ELSE Step(call, "validate_arm_asm_source_text")
     IN IF ~Falsy(source_validation_error)
        THEN Failed(frame, "source_validation_failed",
                    [validation_error |-> source_validation_error], call.last_attempt_feedback)
        ELSE /\ call' = [frame EXCEPT !.at = "write"]
             /\ ret' = ret
  /\ UNCHANGED wsVars

\* Lines 146-186: the attempt is recorded, the source becomes the current
\* source and is written to the source file.
Write ==
  /\ call.fn = "run_agent_loop"
  /\ call.at = "write"
  /\ LET made == makedirs(workspace, dirname(source_file))
         frame == [Step(call, "write") EXCEPT !.current_source = call.generated_code]
     IN IF ~made.ok
        THEN Crash(frame, made.err) /\ UNCHANGED workspace
        ELSE IF isdir(made.val, source_file)
        THEN Crash(frame, Err("OSError", 0, "open")) /\ workspace' = made.val
        ELSE /\ workspace' = [made.val EXCEPT ![source_file] = File(call.generated_code)]
             /\ call' = [frame EXCEPT !.at = IF call.repo_mode THEN "verify" ELSE "compile"]
             /\ ret' = ret
  /\ UNCHANGED wsLocals

\* Lines 188-229: in repo mode the repository is verified, and the attempt
\* ends as verification_failed or as the success of the loop.
Verify ==
  /\ call.fn = "run_agent_loop"
  /\ call.at = "verify"
  /\ \E verify_result \in VerifyResults :
       IF ~verify_result.success
       THEN Failed(Step(call, "run_repo_verification"), "verification_failed",
                   [verification_error |-> verify_result.output,
                    verification_stage |-> verify_result.stage,
                    verification_timed_out |-> verify_result.timed_out],
                   verify_result.output)
       ELSE Succeeded(Step(call, "run_repo_verification"))
  /\ UNCHANGED wsVars

\* Lines 231-267: the source is compiled; a failure ends the attempt as
\* compile_failed with the error of the compiler as it is.
Compile ==
  /\ call.fn = "run_agent_loop"
  /\ call.at = "compile"
  /\ \E compiled \in CompileResults :
       IF ~compiled[1]
       THEN Failed(Step(call, "compile_code"), "compile_failed",
                   [compile_error |-> compiled[2]], compiled[2])
       ELSE /\ call' = [Step(call, "compile_code") EXCEPT
                          !.at = "simulate", !.run_success = FALSE, !.run_output = <<>>,
                          !.timed_out = FALSE, !.current_timeout = call.timeout_sec]
            /\ ret' = ret
  /\ UNCHANGED wsVars

\* Lines 269-283: one pass of the loop of three runs in the simulator, with
\* the timeout current_timeout; runs records each run with what it
\* returned.
Simulate ==
  /\ call.fn = "run_agent_loop"
  /\ call.at = "simulate"
  /\ Len(call.runs) < 3
  /\ \E run \in SimulatorResults :
       LET frame == [Step(call, "run_in_simulator") EXCEPT
                       !.runs = Append(@, [timeout_sec |-> call.current_timeout,
                                           success |-> run[1], output |-> run[2],
                                           timed_out |-> run[3]]),
                       !.run_output = run[2]]
       IN /\ call' = IF ~run[3]
                     THEN [frame EXCEPT !.run_success = run[1], !.timed_out = FALSE,
                                        !.at = "classify"]
                     ELSE [frame EXCEPT !.current_timeout = next_timeout(@),
                                        !.timed_out = TRUE,
                                        !.at = IF Len(call.runs) = 2 THEN "classify"
                                               ELSE "simulate"]
          /\ ret' = ret
  /\ UNCHANGED wsVars

\* Lines 285-344: the runs are classified, and the attempt ends as
\* run_timed_out, run_output_mismatch, run_failed or as the success of the
\* loop.
Classify ==
  /\ call.fn = "run_agent_loop"
  /\ call.at = "classify"
  /\ IF call.timed_out
     THEN Failed(call, "run_timed_out", [run_output |-> call.run_output],
                 <<"Simulator output before timeout in ">> \o config_board_name \o <<":\n">>
                   \o call.run_output)
     ELSE IF ~call.run_success \/ ~Contains(call.run_output, config_expected_output)
     THEN Failed(call, IF call.run_success THEN "run_output_mismatch" ELSE "run_failed",
                 [run_output |-> call.run_output], call.run_output)
     ELSE Succeeded(call)
  /\ UNCHANGED wsVars

\* Lines 33 and 345-348: the attempts are used up, and the function returns.
Exhausted ==
  /\ call.fn = "run_agent_loop"
  /\ call.at = "attempt"
  /\ call.attempt = call.max_retries
  /\ call' = [call EXCEPT !.at = "failed"]
  /\ ret' = Ok(None)
  /\ UNCHANGED wsVars

NextLoop ==
  \/ Start
  \/ CallLlm
  \/ TakeResponse
  \/ Begin
  \/ ApplyListed
  \/ EndOfListed
  \/ CommitPath
  \/ Return
  \/ AfterApply
  \/ Validate
  \/ Write
  \/ Verify
  \/ Compile
  \/ Simulate
  \/ Classify
  \/ Exhausted

SpecLoop == InitLoop /\ [][NextLoop]_vars

\* ---- the claims about run_agent_loop

\* The function whose frame call holds is run_agent_loop, or the
\* apply_workspace_edit_instructions it has called.
InLoop ==
  /\ call.fn \in {"run_agent_loop", "apply_workspace_edit_instructions"}
  /\ "attempt" \in DOMAIN call

\* The outcomes of a failed attempt.
FailedOutcomes ==
  {"edit_apply_failed", "source_validation_failed", "compile_failed", "verification_failed",
   "run_timed_out", "run_output_mismatch", "run_failed"}

\* C28: a response rejected by source validation is rejected before anything
\* is written: when an attempt has ended as source_validation_failed, in
\* full-source mode or in edits mode, the disk (the source file and the rest
\* of the workspace) is as it was when the attempt started.
C28_RejectedBeforeWriting ==
  InLoop /\ call.outcome = "source_validation_failed" => workspace = call.disk0

\* C29: with incremental strict enabled, a response mode that is edits stays
\* edits in every step of the loop, whatever the outcomes of the attempts.
C29_StrictStaysInEditsInLoop ==
  [][InLoop /\ call.incremental_strict /\ call.response_mode = "edits"
       => call'.response_mode = "edits"]_vars

C29_Witness ==
  /\ InLoop
  /\ call.incremental_strict
  /\ call.at = "attempt"
  /\ call.attempt >= 2
  /\ call.outcome = "edit_apply_failed"
  /\ source_mismatch(call.arguments.edit_apply_error)
  /\ call.response_mode = "edits"

\* C30: the response mode starts as edits exactly when incremental is enabled
\* and the source file exists with a non-empty content or the loop is in
\* repo mode; afterwards the mode and the prompt change only in the step that
\* ends a failed attempt, and that step sets them to the next_mode and the
\* next_prompt of the decision decide_next_retry returns for the outcome of
\* the attempt and the mode of the attempt.
C30_ModeFollowsDecisions ==
  [][/\ InLoop /\ call.at = "start" /\ call'.at # "crashed" =>
          call'.response_mode =
             IF call.incremental
                /\ (OnDisk(workspace, entry_file_rel) \notin {MISSING, <<>>} \/ call.repo_mode)
             THEN "edits" ELSE "full_source"
     /\ InLoop /\ call.at # "start"
          /\ (call'.response_mode # call.response_mode
               \/ call'.current_prompt # call.current_prompt) =>
          call'.at = "attempt" /\ call'.outcome \in FailedOutcomes /\ call.outcome = "none"
     /\ InLoop /\ call.outcome = "none" /\ call'.outcome \in FailedOutcomes
          /\ call'.at = "attempt" =>
          /\ call'.arguments.outcome = call'.outcome
          /\ call'.arguments.current_mode = call.response_mode
          /\ decide_next_retry(call'.arguments) = Ok(call'.decision)
          /\ call'.response_mode = call'.decision.next_mode
          /\ call'.current_prompt = call'.decision.next_prompt]_vars

C30_Witness ==
  /\ InLoop
  /\ call.at = "attempt"
  /\ call.outcome = "edit_apply_failed"
  /\ call.arguments.current_mode = "edits"
  /\ call.response_mode = "full_source"
  /\ call.current_prompt = call.decision.next_prompt
  /\ call.current_prompt # initial_prompt

\* C31: errors are not fatal to the loop: it ends only with a success or
\* after max_retries attempts, never with an exception, whatever the
\* diagnostic text of a failed attempt is and whatever the edits commit.
C31_ErrorsNonFatal ==
  InLoop =>
    /\ call.at # "crashed"
    /\ ret.ok \/ ret = NotCalled
    /\ call.at = "failed" => call.attempt = call.max_retries

\* The loop ended with the ValueError of decide_next_retry after a compiler
\* that failed without output.
C31_CrashOnEmptyCompilerError ==
  InLoop /\ call.at = "crashed" /\ call.outcome = "compile_failed"
    /\ call.arguments.compile_error = <<>> /\ call.attempt < call.max_retries

\* The loop ended with the OSError of the commit of the edits.
C31_CrashOnCommit ==
  InLoop /\ call.at = "crashed" /\ ret.err.kind = "OSError" /\ workspace # call.disk0

\* C32: a move_file operation without a path field is rejected with an error
\* about a field it requires, with or without a default path, and the
\* workspace is left as it was.
C32_MoveRequiresPath ==
  pc # "idle" /\ idx >= 1 /\ last_edit.op = "move_file" /\ "path" \notin last_edit.has =>
    /\ pc = "raised"
    /\ raised_in = "ops"
    /\ error.idx = idx
    /\ error.kind \in {"MissingPath", "FieldNotString", "EmptyField", "AbsolutePath",
                       "PathEscape"}
    /\ error.field \in {"path", "new_path"}
    /\ workspace = workspace0

\* A move_file without a path has moved the file at the default path.
C32_MovedDefaultPath ==
  /\ pc = "returned"
  /\ idx = 1
  /\ last_edit.op = "move_file"
  /\ "path" \notin last_edit.has
  /\ default_rel # None
  /\ OnDisk(workspace0, default_rel) # MISSING
  /\ OnDisk(workspace, default_rel) = MISSING
  /\ OnDisk(workspace, normpath(last_edit.new_path)) = OnDisk(workspace0, default_rel)

\* ---------------------------------------------------- run_repo_verification

\* What subprocess.run does with the command of a stage: it completes with
\* a return code, it times out, or it raises OSError; with what the command
\* wrote.
StageOutcomes ==
  [kind : {"completed"}, returncode : {0, 1}, stdout : {<<>>, <<"out">>},
   stderr : {<<>>, <<"err">>}]
  \cup [kind : {"timeout", "oserror"}, returncode : {0}, stdout : {<<>>, <<"out">>},
        stderr : {<<>>, <<"err">>}]

RepoVerifyResult(success, stage, output, timed_out) ==
  [success |-> success, stage |-> stage, output |-> output, timed_out |-> timed_out]

\* The stage that never reports a timeout.
RunStageNeverTimedOut(stage, cmd, outcome) ==
  LET header == <<"[RepoVerify] ", stage, ": ">> \o cmd \o <<"\n">>
  IN CASE outcome.kind = "timeout" ->
            RepoVerifyResult(FALSE, stage, header \o outcome.stdout \o outcome.stderr, FALSE)
       [] outcome.kind = "oserror" ->
            RepoVerifyResult(FALSE, stage, header \o <<"OSError">>, FALSE)
       [] OTHER ->
            RepoVerifyResult(outcome.returncode = 0, stage,
                             header \o outcome.stdout \o outcome.stderr, FALSE)

\* run_stage: the result of one stage.
run_stage(stage, cmd, outcome) ==
  LET header == <<"[RepoVerify] ", stage, ": ">> \o cmd \o <<"\n">>
  IN CASE outcome.kind = "timeout" ->
            RepoVerifyResult(FALSE, stage, header \o outcome.stdout \o outcome.stderr, TRUE)
       [] outcome.kind = "oserror" ->
            RepoVerifyResult(FALSE, stage, header \o <<"OSError">>, FALSE)
       [] OTHER ->
            RepoVerifyResult(outcome.returncode = 0, stage,
                             header \o outcome.stdout \o outcome.stderr, FALSE)

\* run_repo_verification is about to be called, with or without a test
\* command.
InitVerify ==
  /\ WsIdle
  /\ ret = NotCalled
  /\ call \in [fn : {"run_repo_verification"},
                build_cmd : {<<>>, <<"make">>},
                test_cmd : {None, <<>>, <<"make test">>},
                at : {"build"},
                stages : {<<>>},
                outcomes : {<<>>},
                build_result : {RepoVerifyResult(FALSE, "", <<>>, FALSE)}]

\* Lines 195-198: the build stage is run; its result is returned when it
\* failed, and when there is no test command.
RunBuild ==
  /\ call.fn = "run_repo_verification"
  /\ call.at = "build"
  /\ \E outcome \in StageOutcomes :
       LET build_result == run_stage("build", call.build_cmd, outcome)
           frame == [call EXCEPT !.stages = Append(@, "build"),
                                 !.outcomes = Append(@, outcome),
                                 !.build_result = build_result]
       IN IF ~build_result.success
          THEN call' = [frame EXCEPT !.at = "returned"] /\ ret' = Ok(build_result)
          ELSE IF Falsy(call.test_cmd)
          THEN /\ call' = [frame EXCEPT !.at = "returned"]
               /\ ret' = Ok(RepoVerifyResult(TRUE, "build", build_result.output, FALSE))
          ELSE call' = [frame EXCEPT !.at = "test"] /\ ret' = ret
  /\ UNCHANGED wsVars

\* Lines 199-208: the test stage is run, and its result or the result of
\* both stages is returned.
RunTest ==
  /\ call.fn = "run_repo_verification"
  /\ call.at = "test"
  /\ \E outcome \in StageOutcomes :
       LET test_result == run_stage("test", call.test_cmd, outcome)
       IN /\ call' = [call EXCEPT !.stages = Append(@, "test"),
                                  !.outcomes = Append(@, outcome),
                                  !.at = "returned"]
          /\ ret' = IF ~test_result.success THEN Ok(test_result)
                    ELSE Ok(RepoVerifyResult(TRUE, "test",
                                             call.build_result.output \o <<"\n">>
                                               \o test_result.output,
                                             FALSE))
  /\ UNCHANGED wsVars

NextVerify == RunBuild \/ RunTest

SpecVerify == InitVerify /\ [][NextVerify]_vars

\* The stage run number n succeeded.
StageSucceeded(n) ==
  call.outcomes[n].kind = "completed" /\ call.outcomes[n].returncode = 0

\* C33: the build stage is run first and the test stage only after a
\* successful build with a test command; a failing result names the stage
\* that failed, the last one run, with timed_out exactly when that stage
\* timed out; a successful result has stage test when the test stage was run
\* and build otherwise, and is returned only when every stage to run
\* succeeded.
C33_VerificationStages ==
  call.fn = "run_repo_verification" =>
    /\ call.stages \in {<<>>, <<"build">>, <<"build", "test">>}
    /\ Len(call.stages) = 2 => ~Falsy(call.test_cmd) /\ StageSucceeded(1)
    /\ ret = NotCalled => call.stages = <<>> \/ (call.stages = <<"build">> /\ call.at = "test")
    /\ ret # NotCalled =>
         LET last == Len(call.stages)
         IN /\ ret.ok
            /\ last >= 1
            /\ ret.val.stage = call.stages[last]
            /\ ret.val.success = StageSucceeded(last)
            /\ ret.val.timed_out = (call.outcomes[last].kind = "timeout")
            /\ ret.val.success /\ ~Falsy(call.test_cmd) => last = 2
            /\ \A n \in 1..(last - 1) : StageSucceeded(n)

C33_Witness ==
  /\ call.fn = "run_repo_verification"
  /\ call.stages = <<"build", "test">>
  /\ ret.ok
  /\ ~ret.val.success
  /\ ret.val.stage = "test"
  /\ ret.val.timed_out

\* ---- the loop to its end

\* run_agent_loop has returned or raised.
Ended == call.at \in {"done", "failed", "crashed"}

\* How far an attempt is from its end: the steps of an attempt in their
\* order, with the passes left of the loops inside it.
StepsLeft ==
  CASE call.at = "response" -> 29
    [] call.at = "apply" ->
         CASE pc = "begin" -> 28
           [] pc = "ops" -> 18 + (Len(call.edits) - idx)
           [] pc = "commit" -> 9 + Len(pending)
           [] OTHER -> 8
    [] call.at = "validate" -> 7
    [] call.at = "write" -> 6
    [] call.at \in {"verify", "compile"} -> 5
    [] call.at = "simulate" -> 4 - Len(call.runs)
    [] call.at = "classify" -> 1
    [] OTHER -> 0

\* A natural number that every step of the loop decreases: the attempts
\* left, and the steps left of the attempt.
Rank ==
  IF Ended THEN 0
  ELSE IF call.at = "start" THEN (call.max_retries + 1) * 30 + 1
  ELSE (call.max_retries - call.attempt) * 30 + StepsLeft + 1

\* C34: the number of attempts, each with one call of the model, never
\* exceeds max_retries; a successful attempt ends the loop, and once the loop
\* has ended nothing more happens (no call of the model, no write, no
\* compile, no simulator run); and the loop always ends, as every step
\* decreases a natural number.
C34_BoundedAttempts ==
  /\ [](InLoop => /\ call.attempt <= call.max_retries
                  /\ call.outcome = "success" => call.at = "done"
                  /\ Rank \in Nat
                  /\ call.at # "start" /\ call.at # "attempt" /\ ~Ended =>
                       call.steps[1] = "call_llm"
                       /\ \A n \in 2..Len(call.steps) : call.steps[n] # "call_llm")
  /\ [][InLoop => ~Ended /\ Rank' < Rank]_vars

C34_Witness ==
  /\ InLoop
  /\ call.at = "done"
  /\ call.outcome = "success"
  /\ call.attempt < call.max_retries

\* C35: in every state of the loop the response mode is edits only if
\* incremental is enabled; with incremental disabled every attempt is made
\* in full-source mode.
C35_EditsOnlyIfIncremental ==
  InLoop => /\ call.response_mode \in {"edits", "full_source"}
            /\ call.response_mode = "edits" => call.incremental
            /\ ~call.incremental /\ call.attempt >= 1 =>
                 "parse_edit_instructions" \notin Range(call.steps)

C35_Witness ==
  /\ InLoop
  /\ ~call.incremental
  /\ call.attempt >= 2
  /\ call.at = "validate"
  /\ call.outcome = "none"
  /\ call.decision.next_mode = "full_source"
  /\ call.response_mode = "full_source"

\* decide_next_retry on its own returns edits with incremental disabled.
C35_DecisionAloneReturnsEdits ==
  /\ call.fn = "decide_next_retry"
  /\ ~call.incremental
  /\ ret.ok
  /\ ret.val.next_mode = "edits"

\* C36: an attempt that ends as edit_apply_failed leaves the workspace on
\* disk and current_source as they were before the attempt, for every
\* parsed instruction list.
C36_FailedEditsChangeNothing ==
  InLoop /\ call.outcome = "edit_apply_failed" =>
    workspace = call.disk0 /\ call.current_source = call.source0

\* An attempt ended as edit_apply_failed because the committed edits took
\* the source file away.
C36_SourceFileRemoved ==
  /\ InLoop
  /\ call.outcome = "edit_apply_failed"
  /\ call.at = "attempt"
  /\ OnDisk(call.disk0, entry_file_rel) # MISSING
  /\ OnDisk(workspace, entry_file_rel) = MISSING
  /\ call.current_source = call.source0

\* C37: at the start of every attempt, when the source file exists on disk,
\* current_source is the content of that file.
C37_CurrentSourceIsTheFile ==
  InLoop /\ call.at = "attempt" /\ OnDisk(workspace, entry_file_rel) # MISSING =>
    call.current_source = OnDisk(workspace, entry_file_rel)

\* An attempt starts with a current_source that is not the content of the
\* source file, after an edited source that was rejected.
C37_StaleCurrentSource ==
  /\ InLoop
  /\ call.at = "attempt"
  /\ call.attempt < call.max_retries
  /\ call.outcome = "source_validation_failed"
  /\ OnDisk(workspace, entry_file_rel) = <<"1">>
  /\ call.current_source = <<"mov">>
  /\ Contains(call.current_prompt, <<"mov">>)

\* The step name is among the steps of the attempt, before its step number n.
DoneBefore(name, n) == \E m \in 1..(n - 1) : call.steps[m] = name

\* The order of the steps the loop takes itself in one attempt: the write of
\* lines 183-186 after the response was applied or extracted and, outside
\* repo mode, validated; the compiler and the verification after the write;
\* the simulator after the compiler, which succeeded; in repo mode no
\* validation, compiler or simulator.
OrderOfTheLoopSteps ==
  InLoop =>
    /\ \A n \in 1..Len(call.steps) :
         /\ call.steps[n] = "write" =>
              /\ DoneBefore("apply_workspace_edit_instructions", n)
                 \/ DoneBefore("sanitize_full_source_text", n)
              /\ call.repo_mode \/ DoneBefore("validate_arm_asm_source_text", n)
         /\ call.steps[n] \in {"compile_code", "run_repo_verification"} => DoneBefore("write", n)
         /\ call.steps[n] = "run_in_simulator" => DoneBefore("compile_code", n)
    /\ call.at \in {"simulate", "classify"} => "compile_code" \in Range(call.steps)
    /\ call.outcome = "compile_failed" => "run_in_simulator" \notin Range(call.steps)
    /\ call.repo_mode =>
         Range(call.steps) \cap {"validate_arm_asm_source_text", "compile_code",
                                 "run_in_simulator"} = {}
    /\ ~call.repo_mode => "run_repo_verification" \notin Range(call.steps)

\* C38: within one attempt the steps are ordered as in OrderOfTheLoopSteps,
\* and the source file changes on disk only in a step taken after the
\* response was applied or extracted and, outside repo mode, passed
\* validation.
C38_StepOrder ==
  /\ []OrderOfTheLoopSteps
  /\ [][InLoop /\ OnDisk(workspace', entry_file_rel) # OnDisk(workspace, entry_file_rel) =>
          /\ call.at = "write"
          /\ call.repo_mode \/ "validate_arm_asm_source_text" \in Range(call.steps)]_vars

\* The source file has been written by the commit of the edits, before any
\* validation.
C38_WrittenBeforeValidation ==
  /\ InLoop
  /\ call.at = "apply"
  /\ ~call.repo_mode
  /\ pc = "returned"
  /\ "validate_arm_asm_source_text" \notin Range(call.steps)
  /\ OnDisk(workspace, entry_file_rel) # OnDisk(call.disk0, entry_file_rel)

\* 2 to the power n.
RECURSIVE Pow2(_)
Pow2(n) == IF n = 0 THEN 1 ELSE 2 * Pow2(n - 1)

\* The simulator runs of the attempt are over, and the attempt is classified.
Classified ==
  InLoop /\ Len(call.runs) >= 1 /\ call.at \notin {"simulate", "classify"}

\* C39: in one attempt the simulator is run at most 3 times, run number n
\* with the timeout 2^(n-1) * timeout_sec, and only after runs that all
\* timed out; the attempt is run_timed_out exactly when three runs timed
\* out, and otherwise success, run_output_mismatch or run_failed according to
\* whether the last run reported success and its output contains
\* expected_output.
C39_SimulatorRuns ==
  InLoop =>
    LET last == Len(call.runs)
    IN /\ last <= 3
       /\ \A n \in 1..last :
            /\ call.runs[n].timeout_sec = Pow2(n - 1) * call.timeout_sec
            /\ n < last => call.runs[n].timed_out
       /\ call.at = "simulate" => \A n \in 1..last : call.runs[n].timed_out
       /\ Classified =>
            /\ call.runs[last].timed_out => last = 3
            /\ call.outcome = "run_timed_out" <=> call.runs[last].timed_out
            /\ ~call.runs[last].timed_out =>
                 /\ call.outcome = "success" <=>
                      /\ call.runs[last].success
                      /\ Contains(call.runs[last].output, config_expected_output)
                 /\ call.outcome = "run_output_mismatch" <=>
                      /\ call.runs[last].success
                      /\ ~Contains(call.runs[last].output, config_expected_output)
                 /\ call.outcome = "run_failed" <=> ~call.runs[last].success

C39_Witness ==
  /\ Classified
  /\ Len(call.runs) = 3
  /\ call.runs[3].timeout_sec = 4 * call.timeout_sec
  /\ call.timeout_sec # 1
  /\ call.runs[2].timed_out
  /\ ~call.runs[3].timed_out
  /\ call.outcome = "run_output_mismatch"

\* ------------------------------------------------- apply_unified_diff_patch

\* The most lines of an original text.
MaxOrigLines == 7

fuzzy_window == 5

Max(m, n) == IF m >= n THEN m ELSE n

Min(m, n) == IF m <= n THEN m ELSE n

\* Lines 39-46: the lines a hunk expects in the original, its context lines
\* and its removed lines; a line is its prefix and its text.
expected_old_lines(hunk_body) ==
  LET old == SelectSeq(hunk_body, LAMBDA line : line.op \in {" ", "-"})
  IN [n \in 1..Len(old) |-> old[n].text]

\* Lines 48-54: the expected lines are the original lines from the 0-based
\* position start_idx on.
old_lines_match_at(original_lines, expected, start_idx) ==
  \A n \in 1..Len(expected) :
    start_idx + n <= Len(original_lines) /\ original_lines[start_idx + n] = expected[n]

\* Lines 63-65: 0, -1, 1, ..., -fuzzy_window, fuzzy_window.
offsets ==
  [n \in 1..(2 * fuzzy_window + 1) |->
     IF n = 1 THEN 0 ELSE IF n % 2 = 0 THEN 0 - (n \div 2) ELSE n \div 2]

NoCandidate == 0 - 1

\* Lines 56-79: the position a hunk is placed at: max(target_orig_idx,
\* orig_idx) when the expected lines match there, else the first position
\* target_orig_idx + off, in the order of the offsets, that is in the window,
\* not before orig_idx, and where they match; NoCandidate without one.
candidate_orig_idx(original_lines, expected, target_orig_idx, orig_idx) ==
  LET preferred == Max(target_orig_idx, orig_idx)
      min_idx == Max(orig_idx, target_orig_idx - fuzzy_window)
      max_idx == Min(Len(original_lines), target_orig_idx + fuzzy_window)
      fits(n) == LET at == target_orig_idx + offsets[n]
                 IN /\ at >= min_idx /\ at <= max_idx /\ at >= orig_idx
                    /\ old_lines_match_at(original_lines, expected, at)
  IN IF old_lines_match_at(original_lines, expected, preferred) THEN preferred
     ELSE IF \E n \in DOMAIN offsets : fits(n)
     THEN target_orig_idx
            + offsets[CHOOSE n \in DOMAIN offsets :
                        fits(n) /\ \A m \in 1..(n - 1) : ~fits(m)]
     ELSE NoCandidate

\* original_lines[from_idx:to_idx], a slice that ends where the lines end.
LinesBetween(original_lines, from_idx, to_idx) ==
  SubSeq(original_lines, Min(from_idx, Len(original_lines)) + 1,
         Min(to_idx, Len(original_lines)))

\* What the loop over a hunk body gives: the output lines and the position
\* in the original, or the error raised.
BodyDone(output_lines, orig_idx) ==
  [ok |-> TRUE, err |-> NoErr, output_lines |-> output_lines, orig_idx |-> orig_idx]

BodyRaise(e) == [ok |-> FALSE, err |-> e, output_lines |-> <<>>, orig_idx |-> 0]

\* Lines 86-110: the loop over the lines of a hunk body, from hunk_idx on
\* (1-based here).
RECURSIVE apply_hunk_body(_, _, _, _, _)
apply_hunk_body(original_lines, hunk_body, hunk_idx, orig_idx, output_lines) ==
  IF hunk_idx > Len(hunk_body) THEN BodyDone(output_lines, orig_idx)
  ELSE LET line == hunk_body[hunk_idx]
           present == orig_idx < Len(original_lines)
                        /\ original_lines[orig_idx + 1] = line.text
       IN CASE line.op = " " ->
                 IF ~present THEN BodyRaise(Err("ContextMismatch", 0, ""))
                 ELSE apply_hunk_body(original_lines, hunk_body, hunk_idx + 1, orig_idx + 1,
                                      Append(output_lines, original_lines[orig_idx + 1]))
            [] line.op = "-" ->
                 IF ~present THEN BodyRaise(Err("DeletionMismatch", 0, ""))
                 ELSE apply_hunk_body(original_lines, hunk_body, hunk_idx + 1, orig_idx + 1,
                                      output_lines)
            [] line.op = "+" ->
                 apply_hunk_body(original_lines, hunk_body, hunk_idx + 1, orig_idx,
                                 Append(output_lines, line.text))
            [] OTHER -> BodyRaise(Err("UnsupportedPrefix", 0, line.op))

\* What apply_unified_diff_patch gives: the patched text or the error
\* raised, with the positions the hunks were placed at.
Patched(text, placed) == [ok |-> TRUE, val |-> text, err |-> NoErr, placed |-> placed]

PatchRaise(e, placed) == [ok |-> FALSE, val |-> <<>>, err |-> e, placed |-> placed]

\* Lines 22-113: the loop over the hunks from hunk number i on, and the
\* return.
RECURSIVE apply_hunks(_, _, _, _, _, _)
apply_hunks(original_lines, hunks, i, orig_idx, output_lines, placed) ==
  IF i > Len(hunks)
  THEN Patched(output_lines \o LinesBetween(original_lines, orig_idx, Len(original_lines)),
               placed)
  ELSE LET target_orig_idx == Max(hunks[i].start_old - 1, 0)
           candidate == candidate_orig_idx(original_lines, expected_old_lines(hunks[i].body),
                                           target_orig_idx, orig_idx)
       IN IF candidate = NoCandidate
          THEN PatchRaise(Err("ContextMismatch", 0, ""), placed)
          ELSE LET body == apply_hunk_body(
                             original_lines, hunks[i].body, 1, candidate,
                             output_lines \o LinesBetween(original_lines, orig_idx, candidate))
               IN IF ~body.ok THEN PatchRaise(body.err, Append(placed, candidate))
                  ELSE apply_hunks(original_lines, hunks, i + 1, body.orig_idx,
                                   body.output_lines, Append(placed, candidate))

\* apply_unified_diff_patch, for a patch given as its hunks: the old start
\* line of the header and the lines of the body.
apply_unified_diff_patch(original_lines, hunks) ==
  IF hunks = <<>> THEN PatchRaise(Err("NoHunk", 0, ""), <<>>)
  ELSE apply_hunks(original_lines, hunks, 1, 0, <<>>, <<>>)

\* ---- the calls of apply_unified_diff_patch

PatchLine(op, text) == [op |-> op, text |-> text]

\* The original texts: lines a, with at most one line b in the longest.
OriginalTexts ==
  {[n \in 1..len |-> "a"] : len \in 0..MaxOrigLines}
  \cup {[n \in 1..MaxOrigLines |-> IF n = k THEN "b" ELSE "a"] : k \in 1..MaxOrigLines}

\* The hunk bodies: insertions, removals, and changes with context.
HunkBodies ==
  {<<PatchLine("+", "b")>>,
   <<PatchLine("-", "b")>>,
   <<PatchLine("-", "a")>>,
   <<PatchLine(" ", "a"), PatchLine("-", "b")>>,
   <<PatchLine("-", "b"), PatchLine("+", "a")>>,
   <<PatchLine("-", "a"), PatchLine("+", "b")>>,
   <<PatchLine(" ", "a"), PatchLine("+", "b")>>,
   <<PatchLine(" ", "b"), PatchLine("?", "a")>>,
   <<>>}

Hunks == [start_old : 0..(MaxOrigLines + 1), body : HunkBodies]

\* The patches: no hunk, one hunk, two hunks.
Patches == {<<>>} \cup {<<h>> : h \in Hunks} \cup {<<h, g>> : h \in Hunks, g \in Hunks}

InitPatch ==
  /\ WsIdle
  /\ ret = NotCalled
  /\ call \in [fn : {"apply_unified_diff_patch"}, original_lines : OriginalTexts,
                hunks : Patches]

\* apply_unified_diff_patch(original_text, patch_text) returns or raises.
CallApplyUnifiedDiffPatch ==
  /\ call.fn = "apply_unified_diff_patch"
  /\ ret = NotCalled
  /\ ret' = apply_unified_diff_patch(call.original_lines, call.hunks)
  /\ UNCHANGED <<call, wsVars>>

NextPatch == CallApplyUnifiedDiffPatch

SpecPatch == InitPatch /\ [][NextPatch]_vars

\* ---- claims about apply_unified_diff_patch

PatchCalled == call.fn = "apply_unified_diff_patch" /\ ret # NotCalled

Distance(m, n) == IF m >= n THEN m - n ELSE n - m

\* The declared position of hunk k, 0-based.
DeclaredAt(k) == Max(call.hunks[k].start_old - 1, 0)

\* Where the hunk before hunk k ended: the position after its context and
\* removed lines.
PreviousEnd(k) ==
  IF k = 1 THEN 0
  ELSE ret.placed[k - 1] + Len(expected_old_lines(call.hunks[k - 1].body))

MatchesAt(k, at) ==
  old_lines_match_at(call.original_lines, expected_old_lines(call.hunks[k].body), at)

\* The positions the claim allows for hunk k: matching, not before the end
\* of the previous hunk, at most fuzzy_window lines from the declared one.
Allowed(k) ==
  {at \in 0..(MaxOrigLines + fuzzy_window + 1) :
     /\ at >= PreviousEnd(k)
     /\ Distance(at, DeclaredAt(k)) <= fuzzy_window
     /\ MatchesAt(k, at)}

\* The allowed position the claim names: the declared one, else the nearest,
\* the one before the declared line first.
Nearest(k) ==
  CHOOSE at \in Allowed(k) :
    \A q \in Allowed(k) :
      \/ Distance(at, DeclaredAt(k)) < Distance(q, DeclaredAt(k))
      \/ Distance(at, DeclaredAt(k)) = Distance(q, DeclaredAt(k)) /\ at <= q

\* Hunk k was reached and not placed: the hunks before it were applied.
Unplaced(k) == Len(ret.placed) = k - 1 /\ ret.err.kind # "UnsupportedPrefix"

\* The hunks are placed in patch order, where their lines match, none before
\* the end of the one before. A hunk placed within fuzzy_window lines of its
\* declared line is at the position the claim names; one placed farther is
\* at the end of the previous hunk. A patch fails on a hunk with the
\* context-mismatch error only when the hunk has no allowed position and,
\* declared before the end of the previous hunk, does not match at that end.
HunksInOrderWhereTheyMatch ==
  PatchCalled =>
    /\ \A k \in 1..Len(ret.placed) :
          /\ ret.placed[k] >= PreviousEnd(k)
          /\ MatchesAt(k, ret.placed[k])
          /\ Distance(ret.placed[k], DeclaredAt(k)) <= fuzzy_window =>
                ret.placed[k] = Nearest(k)
          /\ Distance(ret.placed[k], DeclaredAt(k)) > fuzzy_window =>
                ret.placed[k] = PreviousEnd(k) /\ Allowed(k) = {}
    /\ \A k \in 1..Len(call.hunks) :
          Unplaced(k) =>
            /\ ~ret.ok /\ ret.err.kind = "ContextMismatch" /\ ret.val = <<>>
            /\ Allowed(k) = {}
            /\ DeclaredAt(k) < PreviousEnd(k) => ~MatchesAt(k, PreviousEnd(k))
    /\ ret.ok => Len(ret.placed) = Len(call.hunks)
    /\ ret.err.kind # "DeletionMismatch"

\* C40: apply_unified_diff_patch places the hunks in patch order at
\* non-overlapping positions: each hunk at its declared old start line when
\* its context and removed lines match there, otherwise at the nearest
\* matching position within fuzzy_window lines of the declared line (the one
\* before it first), never before the end of the previous hunk and never
\* more than fuzzy_window lines from the declared line; when a hunk has no
\* such position the patch fails with the context-mismatch error and no
\* patched text is returned.
C40_HunkPlacement ==
  PatchCalled =>
    /\ \A k \in 1..Len(ret.placed) :
          /\ Allowed(k) # {}
          /\ ret.placed[k] = Nearest(k)
    /\ \A k \in 1..Len(call.hunks) :
          Unplaced(k) /\ Allowed(k) = {} =>
            ~ret.ok /\ ret.err.kind = "ContextMismatch" /\ ret.val = <<>>
    /\ ret.ok => Len(ret.placed) = Len(call.hunks)

\* A patch is applied with its second hunk more than fuzzy_window lines from
\* its declared line: the first hunk removed a line of the original at line
\* 6, the second, declared at line 1, is placed after it.
C40_PlacedBeyondWindow ==
  /\ PatchCalled /\ ret.ok /\ Len(ret.placed) = 2
  /\ Len(call.original_lines) = MaxOrigLines
  /\ call.hunks[1].start_old = 6 /\ call.hunks[1].body = <<PatchLine("-", "a")>>
  /\ call.hunks[2].start_old = 1 /\ call.hunks[2].body = <<PatchLine("-", "a"), PatchLine("+", "b")>>
  /\ ret.placed[2] > DeclaredAt(2) + fuzzy_window

====
